---- MODULE Spec2Model ----
(***************************************************************************)
(* Engine boundary layer of the case dossier front-end                     *)
(* (src/src/api/engineAdapter.ts): the seeded mock simulation engine, the  *)
(* live network adapter with its sanitizer, and the in-memory snapshot     *)
(* store both adapters carry.                                              *)
(*                                                                         *)
(* JavaScript strings are TLA+ strings; a character is a string of length  *)
(* one, read with SubSeq(s, i, i).  A 32-bit word is a pair <<hi, lo>> of  *)
(* 16-bit halves, so that no intermediate value leaves the integer range   *)
(* of the model checker.                                                   *)
(***************************************************************************)
EXTENDS Integers, Sequences, FiniteSets, TLC

(***************************************************************************)
(* 32-bit arithmetic used by createMulberry32                              *)
(***************************************************************************)
W16 == 65536

RECURSIVE Xor16(_, _, _)
\* bitwise xor of the low n bits of a and b
Xor16(a, b, n) ==
  IF n = 0 THEN 0
  ELSE ((a + b) % 2) + 2 * Xor16(a \div 2, b \div 2, n - 1)

RECURSIVE Or16(_, _, _)
\* bitwise or of the low n bits of a and b
Or16(a, b, n) ==
  IF n = 0 THEN 0
  ELSE (IF (a % 2) + (b % 2) > 0 THEN 1 ELSE 0) + 2 * Or16(a \div 2, b \div 2, n - 1)

RECURSIVE Pow2(_)
Pow2(k) == IF k = 0 THEN 1 ELSE 2 * Pow2(k - 1)

\* x ^ y on 32-bit words
Xor32(x, y) == <<Xor16(x[1], y[1], 16), Xor16(x[2], y[2], 16)>>

\* x | c for a constant c < 2^16
OrLow32(x, c) == <<x[1], Or16(x[2], c, 16)>>

\* x >>> k for 0 < k < 16
Shr32(x, k) ==
  <<x[1] \div Pow2(k), (x[2] \div Pow2(k)) + (x[1] % Pow2(k)) * Pow2(16 - k)>>

\* (x + y) mod 2^32
Add32(x, y) ==
  LET lo == x[2] + y[2]
  IN  <<(x[1] + y[1] + lo \div W16) % W16, lo % W16>>

\* the 32-bit product of two 16-bit numbers, as a word
Mul16(a, b) ==
  LET a1 == a \div 256  a0 == a % 256
      b1 == b \div 256  b0 == b % 256
      t0 == a0 * b0
      t1 == a1 * b0 + a0 * b1
      t2 == a1 * b1
      lo == t0 + (t1 % 256) * 256
  IN  <<t2 + t1 \div 256 + lo \div W16, lo % W16>>

\* Math.imul(x, y): the low 32 bits of the product
Imul32(x, y) ==
  LET ll == Mul16(x[2], y[2])
      hl == Mul16(x[1], y[2])
      lh == Mul16(x[2], y[1])
  IN  <<(ll[1] + hl[2] + lh[2]) % W16, ll[2]>>

\* seed >>> 0 for a non-negative seed below 2^31
ToWord(n) == <<n \div W16, n % W16>>

\* 0x6d2b79f5
MULBERRY_INCREMENT == <<27947, 31221>>

(***************************************************************************)
(* createMulberry32: the generator's state is the cell `value`; one call   *)
(* advances the cell and returns the mixed word (the caller divides it by  *)
(* 2^32).                                                                  *)
(***************************************************************************)
mulberryAdvance(value) == Add32(value, MULBERRY_INCREMENT)

mulberryOutput(value) ==
  LET t1 == Imul32(Xor32(value, Shr32(value, 15)), OrLow32(value, 1))
      t2 == Xor32(t1, Add32(t1, Imul32(Xor32(t1, Shr32(t1, 7)), OrLow32(t1, 61))))
  IN  Xor32(t2, Shr32(t2, 14))

\* the word returned by the k-th call (k >= 1) of createMulberry32(seed)
RECURSIVE rngState(_, _)
rngState(seed, k) == IF k = 0 THEN ToWord(seed) ELSE mulberryAdvance(rngState(seed, k - 1))

rngWord(seed, k) == mulberryOutput(rngState(seed, k))

\* Math.floor(r * n) for r = w / 2^32 and a small n
ScaleFloor(w, n) == (w[1] * n + (w[2] * n) \div W16) \div W16

\* r > 0.5 for r = w / 2^32
AboveHalf(w) == w[1] > 32768 \/ (w[1] = 32768 /\ w[2] > 0)

\* pickFrom(items, rng) with the word the rng call returned
pickFrom(items, w) == items[ScaleFloor(w, Len(items)) + 1]

(***************************************************************************)
(* Date.UTC(...).toISOString() for the instants the mock engine builds     *)
(***************************************************************************)
Pad2(n) == IF n < 10 THEN "0" \o ToString(n) ELSE ToString(n)

IsLeap(y) == (y % 4 = 0 /\ y % 100 # 0) \/ y % 400 = 0

DaysInMonth(y, m) ==
  IF m = 2 THEN (IF IsLeap(y) THEN 29 ELSE 28)
  ELSE IF m \in {4, 6, 9, 11} THEN 30 ELSE 31

RECURSIVE NormalizeDate(_, _, _)
\* carries a day count past the end of the month into the following months
NormalizeDate(y, m, d) ==
  IF d <= DaysInMonth(y, m) THEN <<y, m, d>>
  ELSE IF m = 12 THEN NormalizeDate(y + 1, 1, d - DaysInMonth(y, m))
  ELSE NormalizeDate(y, m + 1, d - DaysInMonth(y, m))

\* new Date(Date.UTC(2026, 1, 1, hours, 10, 0)).toISOString(), hours >= 0
utcIsoString(hours) ==
  LET ymd == NormalizeDate(2026, 2, 1 + hours \div 24)
  IN  ToString(ymd[1]) \o "-" \o Pad2(ymd[2]) \o "-" \o Pad2(ymd[3]) \o "T"
        \o Pad2(hours % 24) \o ":10:00.000Z"

(***************************************************************************)
(* Mock simulation engine                                                  *)
(***************************************************************************)
PRESSURE_SCALE == <<"low", "moderate", "elevated", "high", "critical">>

PRIORITIES == <<"forensics", "interviews", "financial", "surveillance">>

\* Array.prototype.indexOf: 0-based, -1 when absent
indexOf(items, v) ==
  IF \E k \in 1..Len(items) : items[k] = v
  THEN (CHOOSE k \in 1..Len(items) : items[k] = v /\ \A j \in 1..(k - 1) : items[j] # v) - 1
  ELSE -1

Max(a, b) == IF a > b THEN a ELSE b
Min(a, b) == IF a < b THEN a ELSE b

\* shiftPressure without the clamp: the index wraps around the scale
shiftPressure_wraps(current, delta) ==
  LET index == indexOf(PRESSURE_SCALE, current)
  IN  IF index < 0 THEN "uncertain"
      ELSE PRESSURE_SCALE[((index + delta) % Len(PRESSURE_SCALE)) + 1]

\* shiftPressure without Math.max/Math.min: past either end of the scale nothing is found
shiftPressure_unclamped(current, delta) ==
  LET index == indexOf(PRESSURE_SCALE, current)
  IN  IF index < 0 THEN "uncertain"
      ELSE IF index + delta < 0 \/ index + delta > Len(PRESSURE_SCALE) - 1 THEN "uncertain"
      ELSE PRESSURE_SCALE[index + delta + 1]

shiftPressure(current, delta) ==
  LET index == indexOf(PRESSURE_SCALE, current)
  IN  IF index < 0 THEN "uncertain"
      ELSE PRESSURE_SCALE[Max(0, Min(Len(PRESSURE_SCALE) - 1, index + delta)) + 1]

\* createInitialMockState with the turn drawn from 0..2
createInitialMockState_turnFromZero(seed) ==
  [ case_id |-> "case_" \o ToString((seed % 900) + 100),
    crime_type |-> pickFrom(<<"murder", "fraud", "arson", "kidnapping">>, rngWord(seed, 1)),
    turn |-> ScaleFloor(rngWord(seed, 4), 3),
    status |-> "active",
    evidence |-> <<
      [ id |-> "e1", label |-> "CCTV Clip", category |-> "digital", state |-> "surfaced",
        summary |-> "Partial frame captured; vehicle profile remains uncertain." ],
      [ id |-> "e2", label |-> "Station Ledger", category |-> "document",
        state |-> IF AboveHalf(rngWord(seed, 2)) THEN "surfaced" ELSE "logged",
        summary |-> "Entry sequence has one contradictory time-stamp." ],
      [ id |-> "e3", label |-> "Lab Swab", category |-> "forensic", state |-> "review",
        summary |-> "Residue profile linked to probable transfer contact." ],
      [ id |-> "e4", label |-> "Witness Call", category |-> "witness",
        state |-> IF AboveHalf(rngWord(seed, 3)) THEN "logged" ELSE "review",
        summary |-> "Caller timeline is probable but partially contradictory." ] >>,
    timeline |-> <<
      [ time |-> "2026-02-01T20:40:00.000Z", label |-> "incident",
        details |-> "Incident logged by control room." ],
      [ time |-> "2026-02-01T21:15:00.000Z", label |-> "first_response",
        details |-> "Initial perimeter established." ],
      [ time |-> "2026-02-01T22:00:00.000Z", label |-> "evidence_intake",
        details |-> "Initial digital and physical evidence intake completed." ] >>,
    investigator_signals |->
      [ priority |-> pickFrom(PRIORITIES, rngWord(seed, 5)),
        demeanour |-> pickFrom(<<"controlled", "impatient", "guarded", "methodical">>,
                               rngWord(seed, 6)),
        recent_shift |-> pickFrom(<<"attention_narrowing", "scope_balancing", "risk_avoidance">>,
                                  rngWord(seed, 7)) ],
    pressure |->
      [ public |-> pickFrom(<<"low", "moderate", "elevated">>, rngWord(seed, 8)),
        institutional |-> pickFrom(<<"low", "moderate">>, rngWord(seed, 9)),
        personal |-> pickFrom(<<"moderate", "elevated">>, rngWord(seed, 10)) ] ]

createInitialMockState(seed) ==
  [ case_id |-> "case_" \o ToString((seed % 900) + 100),
    crime_type |-> pickFrom(<<"murder", "fraud", "arson", "kidnapping">>, rngWord(seed, 1)),
    turn |-> 1 + ScaleFloor(rngWord(seed, 4), 3),
    status |-> "active",
    evidence |-> <<
      [ id |-> "e1", label |-> "CCTV Clip", category |-> "digital", state |-> "surfaced",
        summary |-> "Partial frame captured; vehicle profile remains uncertain." ],
      [ id |-> "e2", label |-> "Station Ledger", category |-> "document",
        state |-> IF AboveHalf(rngWord(seed, 2)) THEN "surfaced" ELSE "logged",
        summary |-> "Entry sequence has one contradictory time-stamp." ],
      [ id |-> "e3", label |-> "Lab Swab", category |-> "forensic", state |-> "review",
        summary |-> "Residue profile linked to probable transfer contact." ],
      [ id |-> "e4", label |-> "Witness Call", category |-> "witness",
        state |-> IF AboveHalf(rngWord(seed, 3)) THEN "logged" ELSE "review",
        summary |-> "Caller timeline is probable but partially contradictory." ] >>,
    timeline |-> <<
      [ time |-> "2026-02-01T20:40:00.000Z", label |-> "incident",
        details |-> "Incident logged by control room." ],
      [ time |-> "2026-02-01T21:15:00.000Z", label |-> "first_response",
        details |-> "Initial perimeter established." ],
      [ time |-> "2026-02-01T22:00:00.000Z", label |-> "evidence_intake",
        details |-> "Initial digital and physical evidence intake completed." ] >>,
    investigator_signals |->
      [ priority |-> pickFrom(PRIORITIES, rngWord(seed, 5)),
        demeanour |-> pickFrom(<<"controlled", "impatient", "guarded", "methodical">>,
                               rngWord(seed, 6)),
        recent_shift |-> pickFrom(<<"attention_narrowing", "scope_balancing", "risk_avoidance">>,
                                  rngWord(seed, 7)) ],
    pressure |->
      [ public |-> pickFrom(<<"low", "moderate", "elevated">>, rngWord(seed, 8)),
        institutional |-> pickFrom(<<"low", "moderate">>, rngWord(seed, 9)),
        personal |-> pickFrom(<<"moderate", "elevated">>, rngWord(seed, 10)) ] ]

\* evidence.findIndex(item => item.state === st): 0-based, -1 when absent
findIndex(evidence, st) ==
  IF \E k \in 1..Len(evidence) : evidence[k].state = st
  THEN (CHOOSE k \in 1..Len(evidence) :
          evidence[k].state = st /\ \A j \in 1..(k - 1) : evidence[j].state # st) - 1
  ELSE -1

\* items.slice(-n)
sliceLast(items, n) ==
  IF Len(items) <= n THEN items ELSE SubSeq(items, Len(items) - n + 1, Len(items))

TIMELINE_KEEP == 12

\* appendTimeline keeping the first entries (.slice(0, 12)) instead of the last
appendTimeline_keepsOldest(state, label, details) ==
  SubSeq(Append(state.timeline,
                [ time |-> utcIsoString(20 + state.turn), label |-> label,
                  details |-> details ]),
         1, Min(Len(state.timeline) + 1, TIMELINE_KEEP))

\* appendTimeline taking the hour modulo 24, so that the date never moves on
appendTimeline_hourOfDay(state, label, details) ==
  sliceLast(Append(state.timeline,
                   [ time |-> utcIsoString((20 + state.turn) % 24), label |-> label,
                     details |-> details ]),
            TIMELINE_KEEP)

appendTimeline(state, label, details) ==
  sliceLast(Append(state.timeline,
                   [ time |-> utcIsoString(20 + state.turn), label |-> label,
                     details |-> details ]),
            TIMELINE_KEEP)

\* an optional property: <<>> when undefined, <<v>> when it holds v
Absent == <<>>
Present(v) == <<v>>

\* buildMockActions offering delay_briefing whatever the public pressure
buildMockActions_delayAlways(state) ==
  LET surfacedCount == Cardinality({k \in 1..Len(state.evidence) :
                                      state.evidence[k].state = "surfaced"})
      hasSuppressed == \E k \in 1..Len(state.evidence) : state.evidence[k].state = "suppressed"
      canDelay == TRUE
  IN  [ actions |-> <<
        [ id |-> "remove_evidence", label |-> "Remove Evidence", enabled |-> surfacedCount > 0,
          cost |-> Present("£200"), desc |-> "Move one surfaced item into restricted review.",
          disabled_reason |-> IF surfacedCount > 0 THEN Absent
                              ELSE Present("No surfaced evidence is available to remove.") ],
        [ id |-> "delay_briefing", label |-> "Delay Briefing", enabled |-> canDelay,
          cost |-> Present("£0"), desc |-> "Delay the official briefing by one turn.",
          disabled_reason |-> IF canDelay THEN Absent
                              ELSE Present("Public pressure is too high to delay briefing.") ],
        [ id |-> "reframe_priority", label |-> "Reframe Priority", enabled |-> TRUE,
          cost |-> Present("£0"), desc |-> "Cycle investigator focus to the next discipline.",
          disabled_reason |-> Absent ],
        [ id |-> "seal_archive", label |-> "Seal Archive", enabled |-> hasSuppressed,
          cost |-> Present("£120"), desc |-> "Seal one suppressed record into archive storage.",
          disabled_reason |-> IF hasSuppressed THEN Absent
                              ELSE Present("At least one suppressed item is needed before sealing archive.") ]
      >> ]

buildMockActions(state) ==
  LET surfacedCount == Cardinality({k \in 1..Len(state.evidence) :
                                      state.evidence[k].state = "surfaced"})
      hasSuppressed == \E k \in 1..Len(state.evidence) : state.evidence[k].state = "suppressed"
      canDelay == state.pressure.public # "critical"
  IN  [ actions |-> <<
        [ id |-> "remove_evidence", label |-> "Remove Evidence", enabled |-> surfacedCount > 0,
          cost |-> Present("£200"), desc |-> "Move one surfaced item into restricted review.",
          disabled_reason |-> IF surfacedCount > 0 THEN Absent
                              ELSE Present("No surfaced evidence is available to remove.") ],
        [ id |-> "delay_briefing", label |-> "Delay Briefing", enabled |-> canDelay,
          cost |-> Present("£0"), desc |-> "Delay the official briefing by one turn.",
          disabled_reason |-> IF canDelay THEN Absent
                              ELSE Present("Public pressure is too high to delay briefing.") ],
        [ id |-> "reframe_priority", label |-> "Reframe Priority", enabled |-> TRUE,
          cost |-> Present("£0"), desc |-> "Cycle investigator focus to the next discipline.",
          disabled_reason |-> Absent ],
        [ id |-> "seal_archive", label |-> "Seal Archive", enabled |-> hasSuppressed,
          cost |-> Present("£120"), desc |-> "Seal one suppressed record into archive storage.",
          disabled_reason |-> IF hasSuppressed THEN Absent
                              ELSE Present("At least one suppressed item is needed before sealing archive.") ]
      >> ]

Failure(state, summary) ==
  [ visible_state |-> state, action_result |-> [ success |-> FALSE, summary |-> summary ] ]

Success(state, summary) ==
  [ visible_state |-> state, action_result |-> [ success |-> TRUE, summary |-> summary ] ]

\* the index of the last item in the given state: 0-based, -1 when absent
findLastIndex(evidence, st) ==
  IF \E k \in 1..Len(evidence) : evidence[k].state = st
  THEN (CHOOSE k \in 1..Len(evidence) :
          evidence[k].state = st /\ \A j \in (k + 1)..Len(evidence) : evidence[j].state # st) - 1
  ELSE -1

\* applyMockAction's remove_evidence taking the last surfaced item (findLastIndex)
applyRemoveEvidence_lastSurfaced(state) ==
  LET targetIndex == findLastIndex(state.evidence, "surfaced")
      n1 == [state EXCEPT !.turn = @ + 1,
                          !.evidence[targetIndex + 1].state = "suppressed",
                          !.evidence[targetIndex + 1].summary =
                              "Access restricted pending compliance review.",
                          !.pressure.public = shiftPressure(@, 1)]
      n2 == [n1 EXCEPT !.timeline =
                appendTimeline(n1, "evidence_removed",
                               "One surfaced evidence item moved into restricted review.")]
  IN  IF targetIndex < 0 THEN Failure(state, "No surfaced evidence could be moved.")
      ELSE Success(n2, "Evidence moved to restricted review for this cycle.")

applyRemoveEvidence(state) ==
  LET targetIndex == findIndex(state.evidence, "surfaced")
      n1 == [state EXCEPT !.turn = @ + 1,
                          !.evidence[targetIndex + 1].state = "suppressed",
                          !.evidence[targetIndex + 1].summary =
                              "Access restricted pending compliance review.",
                          !.pressure.public = shiftPressure(@, 1)]
      n2 == [n1 EXCEPT !.timeline =
                appendTimeline(n1, "evidence_removed",
                               "One surfaced evidence item moved into restricted review.")]
  IN  IF targetIndex < 0 THEN Failure(state, "No surfaced evidence could be moved.")
      ELSE Success(n2, "Evidence moved to restricted review for this cycle.")

\* applyDelayBriefing with the two pressure deltas exchanged
applyDelayBriefing_swapped(state) ==
  LET n1 == [state EXCEPT !.turn = @ + 1,
                          !.pressure.public = shiftPressure(@, 1),
                          !.pressure.institutional = shiftPressure(@, -1)]
      n2 == [n1 EXCEPT !.timeline =
                appendTimeline(n1, "briefing_delayed",
                               "Official briefing pushed by one operational cycle.")]
  IN  IF state.pressure.public = "critical"
      THEN Failure(state, "Briefing delay rejected under critical public pressure.")
      ELSE Success(n2, "Briefing delayed; institutional pressure increased.")

\* applyDelayBriefing testing its guard after `next.turn += 1`
applyDelayBriefing_lateGuard(state) ==
  LET n1 == [state EXCEPT !.turn = @ + 1,
                          !.pressure.public = shiftPressure(@, -1),
                          !.pressure.institutional = shiftPressure(@, 1)]
      n2 == [n1 EXCEPT !.timeline =
                appendTimeline(n1, "briefing_delayed",
                               "Official briefing pushed by one operational cycle.")]
  IN  IF state.pressure.public = "critical"
      THEN Failure([state EXCEPT !.turn = @ + 1],
                   "Briefing delay rejected under critical public pressure.")
      ELSE Success(n2, "Briefing delayed; institutional pressure increased.")

applyDelayBriefing(state) ==
  LET n1 == [state EXCEPT !.turn = @ + 1,
                          !.pressure.public = shiftPressure(@, -1),
                          !.pressure.institutional = shiftPressure(@, 1)]
      n2 == [n1 EXCEPT !.timeline =
                appendTimeline(n1, "briefing_delayed",
                               "Official briefing pushed by one operational cycle.")]
  IN  IF state.pressure.public = "critical"
      THEN Failure(state, "Briefing delay rejected under critical public pressure.")
      ELSE Success(n2, "Briefing delayed; institutional pressure increased.")

\* applyReframePriority stopping at the last priority instead of wrapping
applyReframePriority_noWrap(state) ==
  LET currentIndex == indexOf(PRIORITIES, state.investigator_signals.priority)
      nextIndex == IF currentIndex < 0 THEN 0 ELSE Min(currentIndex + 1, Len(PRIORITIES) - 1)
      n1 == [state EXCEPT !.turn = @ + 1,
                          !.investigator_signals.priority = PRIORITIES[nextIndex + 1],
                          !.investigator_signals.recent_shift = "attention_realignment"]
      n2 == [n1 EXCEPT !.timeline =
                appendTimeline(n1, "priority_reframed",
                               "Investigator priority shifted to "
                                 \o PRIORITIES[nextIndex + 1] \o ".")]
  IN  Success(n2, "Priority shifted to " \o PRIORITIES[nextIndex + 1] \o ".")

\* applyReframePriority without `next.turn += 1`
applyReframePriority_noTurn(state) ==
  LET currentIndex == indexOf(PRIORITIES, state.investigator_signals.priority)
      nextIndex == IF currentIndex < 0 THEN 0 ELSE (currentIndex + 1) % Len(PRIORITIES)
      n1 == [state EXCEPT !.investigator_signals.priority = PRIORITIES[nextIndex + 1],
                          !.investigator_signals.recent_shift = "attention_realignment"]
      n2 == [n1 EXCEPT !.timeline =
                appendTimeline(n1, "priority_reframed",
                               "Investigator priority shifted to "
                                 \o PRIORITIES[nextIndex + 1] \o ".")]
  IN  Success(n2, "Priority shifted to " \o PRIORITIES[nextIndex + 1] \o ".")

applyReframePriority(state) ==
  LET currentIndex == indexOf(PRIORITIES, state.investigator_signals.priority)
      nextIndex == IF currentIndex < 0 THEN 0 ELSE (currentIndex + 1) % Len(PRIORITIES)
      n1 == [state EXCEPT !.turn = @ + 1,
                          !.investigator_signals.priority = PRIORITIES[nextIndex + 1],
                          !.investigator_signals.recent_shift = "attention_realignment"]
      n2 == [n1 EXCEPT !.timeline =
                appendTimeline(n1, "priority_reframed",
                               "Investigator priority shifted to "
                                 \o PRIORITIES[nextIndex + 1] \o ".")]
  IN  Success(n2, "Priority shifted to " \o PRIORITIES[nextIndex + 1] \o ".")

\* applyMockAction's seal_archive raising institutional pressure
applySealArchive_shiftsUp(state) ==
  LET targetIndex == findIndex(state.evidence, "suppressed")
      n1 == [state EXCEPT !.turn = @ + 1,
                          !.evidence[targetIndex + 1].state = "archived",
                          !.evidence[targetIndex + 1].summary = "Record sealed in archive.",
                          !.pressure.institutional = shiftPressure(@, 1)]
      n2 == [n1 EXCEPT !.timeline =
                appendTimeline(n1, "archive_sealed",
                               "Suppressed record sealed in archive storage.")]
  IN  IF targetIndex < 0 THEN Failure(state, "No suppressed item available for archive sealing.")
      ELSE Success(n2, "Archive seal completed for one restricted record.")

\* applyMockAction's seal_archive also recording the seal as the investigator's recent shift
applySealArchive_marksShift(state) ==
  LET targetIndex == findIndex(state.evidence, "suppressed")
      n1 == [state EXCEPT !.turn = @ + 1,
                          !.evidence[targetIndex + 1].state = "archived",
                          !.evidence[targetIndex + 1].summary = "Record sealed in archive.",
                          !.pressure.institutional = shiftPressure(@, -1),
                          !.investigator_signals.recent_shift = "archive_sealed"]
      n2 == [n1 EXCEPT !.timeline =
                appendTimeline(n1, "archive_sealed",
                               "Suppressed record sealed in archive storage.")]
  IN  IF targetIndex < 0 THEN Failure(state, "No suppressed item available for archive sealing.")
      ELSE Success(n2, "Archive seal completed for one restricted record.")

\* applyMockAction's seal_archive easing public pressure instead of institutional pressure
applySealArchive_shiftsPublic(state) ==
  LET targetIndex == findIndex(state.evidence, "suppressed")
      n1 == [state EXCEPT !.turn = @ + 1,
                          !.evidence[targetIndex + 1].state = "archived",
                          !.evidence[targetIndex + 1].summary = "Record sealed in archive.",
                          !.pressure.public = shiftPressure(@, -1)]
      n2 == [n1 EXCEPT !.timeline =
                appendTimeline(n1, "archive_sealed",
                               "Suppressed record sealed in archive storage.")]
  IN  IF targetIndex < 0 THEN Failure(state, "No suppressed item available for archive sealing.")
      ELSE Success(n2, "Archive seal completed for one restricted record.")

\* applyMockAction's seal_archive taking a surfaced item when none is suppressed
applySealArchive_sealsSurfaced(state) ==
  LET targetIndex == IF findIndex(state.evidence, "suppressed") < 0
                     THEN findIndex(state.evidence, "surfaced")
                     ELSE findIndex(state.evidence, "suppressed")
      n1 == [state EXCEPT !.turn = @ + 1,
                          !.evidence[targetIndex + 1].state = "archived",
                          !.evidence[targetIndex + 1].summary = "Record sealed in archive.",
                          !.pressure.institutional = shiftPressure(@, -1)]
      n2 == [n1 EXCEPT !.timeline =
                appendTimeline(n1, "archive_sealed",
                               "Suppressed record sealed in archive storage.")]
  IN  IF targetIndex < 0 THEN Failure(state, "No suppressed item available for archive sealing.")
      ELSE Success(n2, "Archive seal completed for one restricted record.")

applySealArchive(state) ==
  LET targetIndex == findIndex(state.evidence, "suppressed")
      n1 == [state EXCEPT !.turn = @ + 1,
                          !.evidence[targetIndex + 1].state = "archived",
                          !.evidence[targetIndex + 1].summary = "Record sealed in archive.",
                          !.pressure.institutional = shiftPressure(@, -1)]
      n2 == [n1 EXCEPT !.timeline =
                appendTimeline(n1, "archive_sealed",
                               "Suppressed record sealed in archive storage.")]
  IN  IF targetIndex < 0 THEN Failure(state, "No suppressed item available for archive sealing.")
      ELSE Success(n2, "Archive seal completed for one restricted record.")

\* applyMockAction logging an unrecognised id on the timeline
applyMockAction_logsUnknown(state, actionId) ==
  IF actionId = "remove_evidence" THEN applyRemoveEvidence(state)
  ELSE IF actionId = "delay_briefing" THEN applyDelayBriefing(state)
  ELSE IF actionId = "reframe_priority" THEN applyReframePriority(state)
  ELSE IF actionId = "seal_archive" THEN applySealArchive(state)
  ELSE Failure([state EXCEPT !.timeline =
                  appendTimeline(state, "unrecognized_action", "Action was not recognized.")],
               "Action not recognized by mock adapter.")

applyMockAction(state, actionId) ==
  IF actionId = "remove_evidence" THEN applyRemoveEvidence(state)
  ELSE IF actionId = "delay_briefing" THEN applyDelayBriefing(state)
  ELSE IF actionId = "reframe_priority" THEN applyReframePriority(state)
  ELSE IF actionId = "seal_archive" THEN applySealArchive(state)
  ELSE Failure(state, "Action not recognized by mock adapter.")

(***************************************************************************)
(* Untyped values (the `unknown` the sanitizer receives): a record tagged  *)
(* with its JavaScript type.  A number is its sign, the integer part of    *)
(* its magnitude and whether a fractional part follows; "nan" and "inf"    *)
(* are the results Number() can add.                                       *)
(***************************************************************************)
JUndef == [t |-> "undefined"]
JNull == [t |-> "null"]
JBool(b) == [t |-> "boolean", b |-> b]
JNum(neg, int, frac) == [t |-> "number", k |-> "finite", neg |-> neg, int |-> int, frac |-> frac]
JInt(n) == JNum(n < 0, IF n < 0 THEN 0 - n ELSE n, FALSE)
JNaN == [t |-> "number", k |-> "nan", neg |-> FALSE, int |-> 0, frac |-> FALSE]
JInf(neg) == [t |-> "number", k |-> "inf", neg |-> neg, int |-> 0, frac |-> FALSE]
JStr(s) == [t |-> "string", s |-> s]
JArr(a) == [t |-> "array", a |-> a]
JObj(o) == [t |-> "object", o |-> o]

\* payload?.key
Get(v, key) == IF v.t = "object" /\ key \in DOMAIN v.o THEN v.o[key] ELSE JUndef

\* value ?? {}
OrEmptyObject(v) == IF v.t \in {"undefined", "null"} THEN JObj(<<>>) ELSE v

\* Array.isArray(v) ? v : []
arrayOrEmpty(v) == IF v.t = "array" THEN v.a ELSE <<>>

\* Boolean(v)
truthy(v) ==
  CASE v.t \in {"undefined", "null"} -> FALSE
    [] v.t = "boolean" -> v.b
    [] v.t = "number" -> v.k = "inf" \/ (v.k = "finite" /\ (v.int # 0 \/ v.frac))
    [] v.t = "string" -> v.s # ""
    [] OTHER -> TRUE

(***************************************************************************)
(* Characters and the string methods the sanitizer calls                   *)
(***************************************************************************)
LOWER == "abcdefghijklmnopqrstuvwxyz"
UPPER == "ABCDEFGHIJKLMNOPQRSTUVWXYZ"
DIGITS == "0123456789"

charAt(s, i) == SubSeq(s, i, i)

inChars(c, chars) == \E k \in 1..Len(chars) : charAt(chars, k) = c

posIn(c, chars) == CHOOSE k \in 1..Len(chars) : charAt(chars, k) = c

\* \s, for the white space of the model's alphabet
isSpace(c) == c \in {" ", "\t", "\n", "\r", "\f"}

\* \d
isDigit(c) == inChars(c, DIGITS)

\* \w
isWordChar(c) == inChars(c, LOWER) \/ inChars(c, UPPER) \/ isDigit(c) \/ c = "_"

lowerChar(c) == IF inChars(c, UPPER) THEN charAt(LOWER, posIn(c, UPPER)) ELSE c

RECURSIVE joined(_, _, _)
\* the texts pieces[lo] .. pieces[hi] one after the other
joined(pieces, lo, hi) ==
  IF lo > hi THEN ""
  ELSE IF lo = hi THEN pieces[lo]
  ELSE LET mid == (lo + hi) \div 2
       IN  joined(pieces, lo, mid) \o joined(pieces, mid + 1, hi)

toLowerCase(s) == joined([i \in 1..Len(s) |-> lowerChar(charAt(s, i))], 1, Len(s))

RECURSIVE trimStart(_)
trimStart(s) == IF s # "" /\ isSpace(charAt(s, 1)) THEN trimStart(Tail(s)) ELSE s

RECURSIVE trimEnd(_)
trimEnd(s) ==
  IF s # "" /\ isSpace(charAt(s, Len(s))) THEN trimEnd(SubSeq(s, 1, Len(s) - 1)) ELSE s

trim(s) == trimEnd(trimStart(s))

\* s.replace(/\s+/g, by): by stands where a run of white space starts
replaceSpaceRuns(s, by) ==
  joined([i \in 1..Len(s) |->
            IF ~isSpace(charAt(s, i)) THEN charAt(s, i)
            ELSE IF i > 1 /\ isSpace(charAt(s, i - 1)) THEN ""
            ELSE by],
         1, Len(s))

\* s.slice(0, limit)
sliceTo(s, limit) == IF Len(s) <= limit THEN s ELSE SubSeq(s, 1, limit)

\* s.includes(part)
includes(s, part) ==
  \E i \in 1..(Len(s) - Len(part) + 1) : SubSeq(s, i, i + Len(part) - 1) = part

\* every character of s is a digit
allDigits(s) == \A i \in 1..Len(s) : isDigit(charAt(s, i))

(***************************************************************************)
(* RESTRICTED_TEXT_PATTERN                                                 *)
(***************************************************************************)
RESTRICTED_WORDS ==
  <<"seed", "rng", "debug", "hypothesis", "belief", "suspicion", "credibility",
    "confidence", "likelihood", "probability">>

\* \b between positions i - 1 and i of s (i in 1..Len(s) + 1)
wordBoundary(s, i) ==
  LET before == i > 1 /\ isWordChar(charAt(s, i - 1))
      after == i <= Len(s) /\ isWordChar(charAt(s, i))
  IN  before # after

\* \b(word)\b matches s at position i, letter case ignored
wordAt(s, i, word) ==
  /\ i + Len(word) - 1 <= Len(s)
  /\ toLowerCase(SubSeq(s, i, i + Len(word) - 1)) = word
  /\ wordBoundary(s, i)
  /\ wordBoundary(s, i + Len(word))

RECURSIVE digitRunEnd(_, _)
\* the position after the longest run of digits that starts at i
digitRunEnd(s, i) ==
  IF i <= Len(s) /\ isDigit(charAt(s, i)) THEN digitRunEnd(s, i + 1) ELSE i

\* \d+(\.\d+)?% matches s at position i; the digit runs may be cut short by
\* backtracking, so every end of the first run is tried
percentAt(s, i) ==
  \E e \in (i + 1)..digitRunEnd(s, i) :
    \/ e <= Len(s) /\ charAt(s, e) = "%"
    \/ /\ e <= Len(s) /\ charAt(s, e) = "."
       /\ \E f \in (e + 2)..digitRunEnd(s, e + 1) : f <= Len(s) /\ charAt(s, f) = "%"

\* RESTRICTED_TEXT_PATTERN.test(s)
restrictedText(s) ==
  \E i \in 1..Len(s) :
    \/ \E w \in 1..Len(RESTRICTED_WORDS) : wordAt(s, i, RESTRICTED_WORDS[w])
    \/ percentAt(s, i)

RESTRICTED_MARKER == "Restricted in visible state."

(***************************************************************************)
(* Sanitizer                                                               *)
(***************************************************************************)
\* clampText testing RESTRICTED_TEXT_PATTERN after the slice instead of before
clampText_redactsSlice(value, fallback, limit, redactRestricted) ==
  IF value.t # "string" THEN fallback
  ELSE LET normalized == replaceSpaceRuns(trim(value.s), " ")
       IN  IF normalized = "" THEN fallback
           ELSE IF redactRestricted /\ restrictedText(sliceTo(normalized, limit))
           THEN RESTRICTED_MARKER
           ELSE sliceTo(normalized, limit)

clampText(value, fallback, limit, redactRestricted) ==
  IF value.t # "string" THEN fallback
  ELSE LET normalized == replaceSpaceRuns(trim(value.s), " ")
       IN  IF normalized = "" THEN fallback
           ELSE IF redactRestricted /\ restrictedText(normalized) THEN RESTRICTED_MARKER
           ELSE sliceTo(normalized, limit)

DESCRIPTOR_BLOCKED == <<"seed", "rng", "debug", "belief", "hypothesis">>

isDescriptorChar(c) == inChars(c, LOWER) \/ c = "_" \/ c = "-"

sanitizeDescriptor(value, fallback) ==
  LET candidate == replaceSpaceRuns(toLowerCase(clampText(value, fallback, 64, FALSE)), "_")
  IN  IF \E i \in 1..Len(candidate) : isDigit(charAt(candidate, i)) THEN fallback
      ELSE IF \E w \in 1..Len(DESCRIPTOR_BLOCKED) : includes(candidate, DESCRIPTOR_BLOCKED[w])
      THEN fallback
      ELSE IF candidate = "" \/ \E i \in 1..Len(candidate) : ~isDescriptorChar(charAt(candidate, i))
      THEN fallback
      ELSE candidate

QUALITATIVE_TERMS ==
  {"low", "moderate", "elevated", "high", "critical", "uncertain", "probable",
   "contradictory", "stable", "fragile"}

STATUS_TERMS == {"active", "contained", "paused", "cold", "closed"}

EVIDENCE_STATES == {"surfaced", "logged", "review", "suppressed", "archived"}

\* sanitizeStatus without the look-up in STATUS_TERMS
sanitizeStatus_anyDescriptor(value) == sanitizeDescriptor(value, "active")

sanitizeStatus(value) ==
  LET status == sanitizeDescriptor(value, "active")
  IN  IF status \in STATUS_TERMS THEN status ELSE "active"

sanitizePressure(value) ==
  LET pressure == sanitizeDescriptor(value, "uncertain")
  IN  IF pressure \in QUALITATIVE_TERMS THEN pressure ELSE "uncertain"

\* new Date(Date.UTC(2026, 1, 1, 0, 0, 0)).toISOString()
FALLBACK_INSTANT == "2026-02-01T00:00:00.000Z"

digitsAt(s, i, n) == i + n - 1 <= Len(s) /\ \A k \in i..(i + n - 1) : isDigit(charAt(s, k))

RECURSIVE toNat(_)
\* the value of a string of digits
toNat(s) ==
  IF s = "" THEN 0 ELSE 10 * toNat(SubSeq(s, 1, Len(s) - 1)) + (posIn(charAt(s, Len(s)), DIGITS) - 1)

\* s is YYYY-MM-DD with a month and a day that exist
isIsoDate(s) ==
  /\ Len(s) = 10
  /\ digitsAt(s, 1, 4) /\ charAt(s, 5) = "-" /\ digitsAt(s, 6, 2) /\ charAt(s, 8) = "-"
  /\ digitsAt(s, 9, 2)
  /\ toNat(SubSeq(s, 6, 7)) \in 1..12
  /\ toNat(SubSeq(s, 9, 10)) \in 1..DaysInMonth(toNat(SubSeq(s, 1, 4)), toNat(SubSeq(s, 6, 7)))

\* s is THH:MM:SS.sssZ with a time of day that exists
isIsoTimeZ(s) ==
  /\ Len(s) = 14
  /\ charAt(s, 1) = "T" /\ digitsAt(s, 2, 2) /\ charAt(s, 4) = ":" /\ digitsAt(s, 5, 2)
  /\ charAt(s, 7) = ":" /\ digitsAt(s, 8, 2) /\ charAt(s, 10) = "." /\ digitsAt(s, 11, 3)
  /\ charAt(s, 14) = "Z"
  /\ toNat(SubSeq(s, 2, 3)) <= 23 /\ toNat(SubSeq(s, 5, 6)) <= 59 /\ toNat(SubSeq(s, 8, 9)) <= 59

\* new Date(text).toISOString(), or "" when the date is invalid.  The model
\* reads the two ISO forms below; any other text is taken as unparseable,
\* so the payloads of the model carry either one of these forms or text
\* that no JavaScript engine reads as a date.
dateToIso(text) ==
  IF Len(text) = 24 /\ isIsoDate(SubSeq(text, 1, 10)) /\ isIsoTimeZ(SubSeq(text, 11, 24))
  THEN text
  ELSE IF isIsoDate(text) THEN text \o "T00:00:00.000Z"
  ELSE ""

sanitizeIsoTime(value) ==
  LET text == clampText(value, "", 48, FALSE)
  IN  IF text = "" THEN FALLBACK_INSTANT
      ELSE IF dateToIso(text) = "" THEN FALLBACK_INSTANT
      ELSE dateToIso(text)

sanitizeEvidence(item, index) ==
  LET state == sanitizeDescriptor(Get(item, "state"), "logged")
  IN  [ id |-> clampText(Get(item, "id"), "e" \o ToString(index + 1), 32, FALSE),
        label |-> clampText(Get(item, "label"), "Evidence " \o ToString(index + 1), 70, FALSE),
        category |-> sanitizeDescriptor(Get(item, "category"), "general"),
        state |-> IF state \in EVIDENCE_STATES THEN state ELSE "logged",
        summary |-> clampText(Get(item, "summary"), "No summary available.", 220, TRUE) ]

sanitizeTimeline(item, index) ==
  [ time |-> sanitizeIsoTime(Get(item, "time")),
    label |-> clampText(Get(item, "label"), "event_" \o ToString(index + 1), 60, FALSE),
    details |-> clampText(Get(item, "details"), "No details provided.", 240, TRUE) ]

\* the sign, integer part and fraction flag of an optionally signed decimal
\* literal, or JNaN.  Number() also reads exponents, hexadecimal, octal and
\* binary literals and "Infinity"; the payloads of the model use none.
stringToNumber(s) ==
  LET body == trim(s)
      neg == body # "" /\ charAt(body, 1) = "-"
      signed == body # "" /\ charAt(body, 1) \in {"-", "+"}
      mag == IF signed THEN Tail(body) ELSE body
      intEnd == digitRunEnd(mag, 1)
      intPart == SubSeq(mag, 1, intEnd - 1)
      rest == SubSeq(mag, intEnd, Len(mag))
      fracDigits == IF rest # "" /\ charAt(rest, 1) = "." THEN Tail(rest) ELSE ""
  IN  IF body = "" THEN JInt(0)
      ELSE IF rest = "" /\ intPart # "" THEN JNum(neg, toNat(intPart), FALSE)
      ELSE IF /\ rest # "" /\ charAt(rest, 1) = "."
              /\ allDigits(fracDigits)
              /\ (intPart # "" \/ fracDigits # "")
      THEN JNum(neg, toNat(intPart), \E k \in 1..Len(fracDigits) : charAt(fracDigits, k) # "0")
      ELSE JNaN

RECURSIVE toNumber(_)
\* Number(v)
toNumber(v) ==
  CASE v.t = "undefined" -> JNaN
    [] v.t = "null" -> JInt(0)
    [] v.t = "boolean" -> JInt(IF v.b THEN 1 ELSE 0)
    [] v.t = "number" -> v
    [] v.t = "string" -> stringToNumber(v.s)
    [] v.t = "array" ->
         IF v.a = <<>> THEN JInt(0)
         ELSE IF Len(v.a) > 1 THEN JNaN
         ELSE IF v.a[1].t \in {"undefined", "null"} THEN JInt(0)
         ELSE IF v.a[1].t \in {"number", "string", "array"} THEN toNumber(v.a[1])
         ELSE JNaN
    [] OTHER -> JNaN

\* Number.isFinite(rawTurn) && rawTurn >= 0 ? Math.floor(rawTurn) : 0
sanitizeTurn(value) ==
  LET rawTurn == toNumber(value)
  IN  IF rawTurn.k = "finite" /\ (~rawTurn.neg \/ (rawTurn.int = 0 /\ ~rawTurn.frac))
      THEN rawTurn.int ELSE 0

sanitizeVisibleState(input) ==
  LET evidenceSource == arrayOrEmpty(Get(input, "evidence"))
      timelineSource == arrayOrEmpty(Get(input, "timeline"))
      signals == OrEmptyObject(Get(input, "investigator_signals"))
      pressure == OrEmptyObject(Get(input, "pressure"))
  IN  [ case_id |-> clampText(Get(input, "case_id"), "case_001", 40, FALSE),
        crime_type |-> sanitizeDescriptor(Get(input, "crime_type"), "unknown"),
        turn |-> sanitizeTurn(Get(input, "turn")),
        status |-> sanitizeStatus(Get(input, "status")),
        evidence |-> [k \in 1..Len(evidenceSource) |-> sanitizeEvidence(evidenceSource[k], k - 1)],
        timeline |-> [k \in 1..Len(timelineSource) |-> sanitizeTimeline(timelineSource[k], k - 1)],
        investigator_signals |->
          [ priority |-> sanitizeDescriptor(Get(signals, "priority"), "uncertain"),
            demeanour |-> sanitizeDescriptor(Get(signals, "demeanour"), "uncertain"),
            recent_shift |-> sanitizeDescriptor(Get(signals, "recent_shift"), "uncertain") ],
        pressure |->
          [ public |-> sanitizePressure(Get(pressure, "public")),
            institutional |-> sanitizePressure(Get(pressure, "institutional")),
            personal |-> sanitizePressure(Get(pressure, "personal")) ] ]

\* sanitizeAction clamping disabled_reason whether enabled or not
sanitizeAction_keepsReason(item, index) ==
  [ id |-> clampText(Get(item, "id"), "action_" \o ToString(index + 1), 64, FALSE),
    label |-> clampText(Get(item, "label"), "Action " \o ToString(index + 1), 80, FALSE),
    enabled |-> truthy(Get(item, "enabled")),
    cost |-> IF Get(item, "cost").t = "string"
             THEN Present(clampText(Get(item, "cost"), "", 20, FALSE)) ELSE Absent,
    desc |-> clampText(Get(item, "desc"), "No description available.", 200, TRUE),
    disabled_reason |->
      Present(clampText(Get(item, "disabled_reason"),
                        "Unavailable this turn due to current case conditions.", 120, TRUE)) ]

sanitizeAction(item, index) ==
  LET enabled == truthy(Get(item, "enabled"))
  IN  [ id |-> clampText(Get(item, "id"), "action_" \o ToString(index + 1), 64, FALSE),
        label |-> clampText(Get(item, "label"), "Action " \o ToString(index + 1), 80, FALSE),
        enabled |-> enabled,
        cost |-> IF Get(item, "cost").t = "string"
                 THEN Present(clampText(Get(item, "cost"), "", 20, FALSE)) ELSE Absent,
        desc |-> clampText(Get(item, "desc"), "No description available.", 200, TRUE),
        disabled_reason |->
          IF enabled THEN Absent
          ELSE Present(clampText(Get(item, "disabled_reason"),
                                 "Unavailable this turn due to current case conditions.",
                                 120, TRUE)) ]

sanitizeActionsResponse(input) ==
  LET actions == arrayOrEmpty(Get(input, "actions"))
  IN  [ actions |-> [k \in 1..Len(actions) |-> sanitizeAction(actions[k], k - 1)] ]

sanitizeActionResult(input) ==
  [ success |-> truthy(Get(input, "success")),
    summary |-> clampText(Get(input, "summary"), "Action completed.", 220, TRUE) ]

(***************************************************************************)
(* Adapter instances                                                       *)
(*                                                                         *)
(* An adapter is a closure over a state cell and a slot map.  A cell that  *)
(* may be empty holds <<>> or <<v>>.  `held` is the VisibleState object    *)
(* the caller received last, and `aliased` names the adapter cells that    *)
(* are that very object (not a copy of it): the caller may write to the    *)
(* object it holds, and any cell sharing it changes with it.               *)
(***************************************************************************)
Inst == {1, 2}

DEFAULT_SLOTS == <<"page-a", "page-b", "page-c">>

\* the slot names the caller uses: a default one and one of its own
SlotNames == {"page-a", "page-z"}

\* the seeds the mock adapter is created with
Seeds == {1, 9}

CATALOGUE == {"remove_evidence", "delay_briefing", "reframe_priority", "seal_archive"}

\* the action ids the caller sends: the catalogue and two ids outside it
ActionIds == CATALOGUE \cup {"open_vault", "REMOVE_EVIDENCE"}

\* the action id a live request carries (the live adapter only forwards it)
LiveActionIds == {"delay_briefing"}

\* successful actions on top of the state the adapter started from:
\* in runs of the adapter with its snapshot store, and in runs of the engine alone
MaxSnapSteps == 1
MaxSteps == 3

\* reframe_priority actions an engine run may already have behind it
WarmUp == 8

\* live requests in flight at once
MaxInflight == 1

\* clock ticks from the start of a request's timer to its expiry
TimerTicks == 1

VARIABLES
  kind,      \* kind[i]: "mock", "live", or "none" when instance i was never created
  seed,      \* seed[i]: the seed of a mock instance
  cur,       \* cur[i]: the mock adapter's `state`, the live adapter's `current`
  slots,     \* slots[i][s]: the snapshot stored under s
  slotKeys,  \* slotKeys[i]: the keys of the slot map in insertion order
  pending,   \* pending[i]: the live requests in flight, in issue order, each with
             \* the time its timer has run; a request is fresh until another
             \* call of the adapter settles
  resp,      \* resp[i]: what the call that settled last returned or threw
  held,      \* the VisibleState object the caller holds
  aliased,   \* the cells that are the object the caller holds
  lag,       \* the call instance 2 has still to repeat after instance 1
  limit,     \* limit[i]: the bounds of the run: the last turn, the requests in
             \* flight, the length of a clock tick (0: the run does not follow
             \* the clock, a timer may fire at any moment)
  base,      \* base[i]: turn when instance i was created or last loaded a slot
  wins,      \* wins[i]: successful actions since then
  savedAt,   \* savedAt[i][s]: the working state when saveSlot(s) last resolved
  saveDone,  \* saveDone[i]: the slots for which a saveSlot call has resolved
  probe,     \* a function called on its own: its arguments and what it returned;
             \* or the caller's record of its calls, <<>> when none is kept
  ui         \* the React component on top of the adapter: its state and its
             \* handlers in flight; <<>> when the adapter is driven directly

vars == <<kind, seed, cur, slots, slotKeys, pending, resp, held, aliased, lag,
          limit, base, wins, savedAt, saveDone, probe, ui>>

CellCur(i) == [cell |-> "cur", i |-> i, s |-> ""]
CellSlot(i, s) == [cell |-> "slot", i |-> i, s |-> s]

NoResp ==
  [ op |-> "", arg |-> "", ok |-> TRUE, error |-> "", message |-> "",
    visible_state |-> <<>>, action_result |-> <<>>, actions |-> <<>>, names |-> <<>> ]

Resolved(op, arg) == [NoResp EXCEPT !.op = op, !.arg = arg]

Rejected(op, arg, error, message) ==
  [NoResp EXCEPT !.op = op, !.arg = arg, !.ok = FALSE, !.error = error, !.message = message]

unknownSlotMessage(slotId) == "No saved data for \"" \o slotId \o "\". Save a page first."

\* Map.prototype.set on the key order
setKey(keys, k) == IF \E n \in 1..Len(keys) : keys[n] = k THEN keys ELSE Append(keys, k)

RECURSIVE withoutAll(_, _)
\* the elements of seq that are not in drop, in order
withoutAll(seq, drop) ==
  IF seq = <<>> THEN <<>>
  ELSE IF \E n \in 1..Len(drop) : drop[n] = Head(seq) THEN withoutAll(Tail(seq), drop)
  ELSE <<Head(seq)>> \o withoutAll(Tail(seq), drop)

\* Array.from(new Set([...DEFAULT_SLOTS, ...slots.keys()]))
mergedSlots(keys) == DEFAULT_SLOTS \o withoutAll(keys, DEFAULT_SLOTS)

\* the caller writes to the object it holds
Tamper(v) == [v EXCEPT !.status = "tampered", !.evidence = <<>>]

\* the caller's record of its calls, kept in runs that start with
\* LogStart: a call that was issued, and a call that settled with what it
\* returned or threw
LogStart == [ev |-> "start", call |-> NoResp]

Issued(op, arg) == [ev |-> "issue", call |-> Resolved(op, arg)]

Settled(i) == [ev |-> "settle", call |-> resp'[i]]

Log(entry) == probe' = IF probe = <<>> THEN probe ELSE Append(probe, entry)

\* instance 1 leaves its call for instance 2 to repeat, when there is one
Leave(i, op, arg) ==
  lag' = IF i = 1 /\ kind[2] # "none" THEN <<[op |-> op, arg |-> arg]>> ELSE <<>>

\* the caller receives a fresh copy v and drops the object it held
Hand(v) == held' = <<v>> /\ aliased' = {}

\* the caller keeps its object; the cells in `over` are given new objects
Keep(over) == held' = held /\ aliased' = aliased \ over

(***************************************************************************)
(* createMockAdapter                                                       *)
(***************************************************************************)
\* getVisibleState returning `state` itself instead of deepClone(state)
MockGetVisibleState_noClone(i) ==
  /\ kind[i] = "mock"
  /\ resp' = [resp EXCEPT ![i] = [Resolved("getVisibleState", "") EXCEPT
                                    !.visible_state = cur[i]]]
  /\ held' = cur[i]
  /\ aliased' = {CellCur(i)}
  /\ Leave(i, "getVisibleState", "")
  /\ Log(Settled(i))
  /\ UNCHANGED <<ui, kind, seed, cur, slots, slotKeys, pending, limit, base, wins, savedAt, saveDone>>

MockGetVisibleState(i) ==
  /\ kind[i] = "mock"
  /\ resp' = [resp EXCEPT ![i] = [Resolved("getVisibleState", "") EXCEPT
                                    !.visible_state = cur[i]]]
  /\ Hand(cur[i][1])
  /\ Leave(i, "getVisibleState", "")
  /\ Log(Settled(i))
  /\ UNCHANGED <<ui, kind, seed, cur, slots, slotKeys, pending, limit, base, wins, savedAt, saveDone>>

\* getActions answering from the actions built when the adapter was created
MockGetActions_cached(i) ==
  /\ kind[i] = "mock"
  /\ resp' = [resp EXCEPT ![i] = [Resolved("getActions", "") EXCEPT
                  !.actions = <<buildMockActions(createInitialMockState(seed[i]))>>]]
  /\ Keep({})
  /\ Leave(i, "getActions", "")
  /\ Log(Settled(i))
  /\ UNCHANGED <<ui, kind, seed, cur, slots, slotKeys, pending, limit, base, wins, savedAt, saveDone>>

MockGetActions(i) ==
  /\ kind[i] = "mock"
  /\ resp' = [resp EXCEPT ![i] = [Resolved("getActions", "") EXCEPT
                                    !.actions = <<buildMockActions(cur[i][1])>>]]
  /\ Keep({})
  /\ Leave(i, "getActions", "")
  /\ Log(Settled(i))
  /\ UNCHANGED <<ui, kind, seed, cur, slots, slotKeys, pending, limit, base, wins, savedAt, saveDone>>

\* one call on a mock adapter whose cells hold state, slots and keys: the
\* cells after it and what it returns
mockCall(state, slotMap, keys, op, arg) ==
  LET same == [state |-> state, slots |-> slotMap, keys |-> keys, resp |-> Resolved(op, arg)]
  IN  IF op = "getVisibleState"
      THEN [same EXCEPT !.resp.visible_state = <<state>>]
      ELSE IF op = "getActions"
      THEN [same EXCEPT !.resp.actions = <<buildMockActions(state)>>]
      ELSE IF op = "applyAction"
      THEN LET response == applyMockAction(state, arg)
           IN  [same EXCEPT !.state = response.visible_state,
                            !.resp.visible_state = <<response.visible_state>>,
                            !.resp.action_result = <<response.action_result>>]
      ELSE IF op = "saveSlot"
      THEN [same EXCEPT !.slots[arg] = <<state>>, !.keys = setKey(@, arg)]
      ELSE IF op = "loadSlot"
      THEN IF slotMap[arg] = <<>>
           THEN [same EXCEPT !.resp = Rejected(op, arg, "EngineAdapterError",
                                               unknownSlotMessage(arg))]
           ELSE [same EXCEPT !.state = slotMap[arg][1], !.resp.visible_state = slotMap[arg]]
      ELSE [same EXCEPT !.resp.names = mergedSlots(keys)]

RECURSIVE runCalls(_, _)
\* a new mock adapter of seed sd after the recorded calls, each run to its
\* end before the next begins; `same` says every recorded return value is
\* the one that run gives
runCalls(sd, calls) ==
  IF calls = <<>>
  THEN [state |-> createInitialMockState(sd), slots |-> [s \in DOMAIN slots[1] |-> <<>>],
        keys |-> <<>>, same |-> TRUE]
  ELSE LET before == runCalls(sd, SubSeq(calls, 1, Len(calls) - 1))
           last == calls[Len(calls)].call
           after == mockCall(before.state, before.slots, before.keys, last.op, last.arg)
       IN  [state |-> after.state, slots |-> after.slots, keys |-> after.keys,
            same |-> before.same /\ after.resp = last]

\* applyAction that suspends after reading `state`: it works on the state
\* as it was when the call before it began
MockApplyAction_lostUpdate(i, actionId) ==
  /\ kind[i] = "mock"
  /\ LET read == IF Len(probe) >= 2
                 THEN runCalls(seed[i], SubSeq(probe, 2, Len(probe) - 1)).state
                 ELSE cur[i][1]
         response == applyMockAction(read, actionId)
     IN  /\ cur[i][1].turn < limit[i].turn \/ ~response.action_result.success
         /\ cur' = [cur EXCEPT ![i] = <<response.visible_state>>]
         /\ resp' = [resp EXCEPT ![i] = [Resolved("applyAction", actionId) EXCEPT
                                           !.visible_state = <<response.visible_state>>,
                                           !.action_result = <<response.action_result>>]]
         /\ Hand(response.visible_state)
         /\ wins' = [wins EXCEPT ![i] = IF response.action_result.success THEN @ + 1 ELSE @]
  /\ Leave(i, "applyAction", actionId)
  /\ Log(Settled(i))
  /\ UNCHANGED <<ui, kind, seed, slots, slotKeys, pending, limit, base, savedAt, saveDone>>

\* applyAction with `state` declared at module level, one cell for every mock adapter
MockApplyAction_sharedState(i, actionId) ==
  /\ kind[i] = "mock"
  /\ LET response == applyMockAction(cur[i][1], actionId)
     IN  /\ cur[i][1].turn < limit[i].turn \/ ~response.action_result.success
         /\ cur' = [j \in Inst |-> IF kind[j] = "mock" THEN <<response.visible_state>>
                                   ELSE cur[j]]
         /\ resp' = [resp EXCEPT ![i] = [Resolved("applyAction", actionId) EXCEPT
                                           !.visible_state = <<response.visible_state>>,
                                           !.action_result = <<response.action_result>>]]
         /\ Hand(response.visible_state)
         /\ wins' = [wins EXCEPT ![i] = IF response.action_result.success THEN @ + 1 ELSE @]
  /\ Leave(i, "applyAction", actionId)
  /\ Log(Settled(i))
  /\ UNCHANGED <<ui, kind, seed, slots, slotKeys, pending, limit, base, savedAt, saveDone>>

MockApplyAction(i, actionId) ==
  /\ kind[i] = "mock"
  /\ LET response == applyMockAction(cur[i][1], actionId)
     IN  /\ cur[i][1].turn < limit[i].turn \/ ~response.action_result.success
         /\ cur' = [cur EXCEPT ![i] = <<response.visible_state>>]
         /\ resp' = [resp EXCEPT ![i] = [Resolved("applyAction", actionId) EXCEPT
                                           !.visible_state = <<response.visible_state>>,
                                           !.action_result = <<response.action_result>>]]
         /\ Hand(response.visible_state)
         /\ wins' = [wins EXCEPT ![i] = IF response.action_result.success THEN @ + 1 ELSE @]
  /\ Leave(i, "applyAction", actionId)
  /\ Log(Settled(i))
  /\ UNCHANGED <<ui, kind, seed, slots, slotKeys, pending, limit, base, savedAt, saveDone>>

\* saveSlot that stores only when the slot is still empty
MockSaveSlot_keepsFirst(i, slotId) ==
  /\ kind[i] = "mock"
  /\ slots' = [slots EXCEPT ![i][slotId] = IF @ = <<>> THEN cur[i] ELSE @]
  /\ slotKeys' = [slotKeys EXCEPT ![i] = setKey(@, slotId)]
  /\ resp' = [resp EXCEPT ![i] = Resolved("saveSlot", slotId)]
  /\ Keep({CellSlot(i, slotId)})
  /\ savedAt' = [savedAt EXCEPT ![i][slotId] = cur[i]]
  /\ saveDone' = [saveDone EXCEPT ![i] = @ \cup {slotId}]
  /\ Leave(i, "saveSlot", slotId)
  /\ Log(Settled(i))
  /\ UNCHANGED <<ui, kind, seed, cur, pending, limit, base, wins>>

MockSaveSlot(i, slotId) ==
  /\ kind[i] = "mock"
  /\ slots' = [slots EXCEPT ![i][slotId] = cur[i]]
  /\ slotKeys' = [slotKeys EXCEPT ![i] = setKey(@, slotId)]
  /\ resp' = [resp EXCEPT ![i] = Resolved("saveSlot", slotId)]
  /\ Keep({CellSlot(i, slotId)})
  /\ savedAt' = [savedAt EXCEPT ![i][slotId] = cur[i]]
  /\ saveDone' = [saveDone EXCEPT ![i] = @ \cup {slotId}]
  /\ Leave(i, "saveSlot", slotId)
  /\ Log(Settled(i))
  /\ UNCHANGED <<ui, kind, seed, cur, pending, limit, base, wins>>

\* loadSlot that returns the snapshot without `state = deepClone(snapshot)`
MockLoadSlot_returnsOnly(i, slotId) ==
  /\ kind[i] = "mock"
  /\ LET snapshot == slots[i][slotId]
     IN  IF snapshot = <<>>
         THEN /\ resp' = [resp EXCEPT ![i] =
                            Rejected("loadSlot", slotId, "EngineAdapterError",
                                     unknownSlotMessage(slotId))]
              /\ Keep({})
         ELSE /\ resp' = [resp EXCEPT ![i] = [Resolved("loadSlot", slotId) EXCEPT
                                                !.visible_state = snapshot]]
              /\ Hand(snapshot[1])
  /\ Leave(i, "loadSlot", slotId)
  /\ Log(Settled(i))
  /\ UNCHANGED <<ui, kind, seed, cur, base, wins, slots, slotKeys, pending, limit, savedAt, saveDone>>

MockLoadSlot(i, slotId) ==
  /\ kind[i] = "mock"
  /\ LET snapshot == slots[i][slotId]
     IN  IF snapshot = <<>>
         THEN /\ resp' = [resp EXCEPT ![i] =
                            Rejected("loadSlot", slotId, "EngineAdapterError",
                                     unknownSlotMessage(slotId))]
              /\ Keep({})
              /\ UNCHANGED <<cur, base, wins>>
         ELSE /\ cur' = [cur EXCEPT ![i] = snapshot]
              /\ resp' = [resp EXCEPT ![i] = [Resolved("loadSlot", slotId) EXCEPT
                                                !.visible_state = snapshot]]
              /\ Hand(snapshot[1])
              /\ base' = [base EXCEPT ![i] = snapshot[1].turn]
              /\ wins' = [wins EXCEPT ![i] = 0]
  /\ Leave(i, "loadSlot", slotId)
  /\ Log(Settled(i))
  /\ UNCHANGED <<ui, kind, seed, slots, slotKeys, pending, limit, savedAt, saveDone>>

MockListSlots(i) ==
  /\ kind[i] = "mock"
  /\ resp' = [resp EXCEPT ![i] = [Resolved("listSlots", "") EXCEPT
                                    !.names = mergedSlots(slotKeys[i])]]
  /\ Keep({})
  /\ Leave(i, "listSlots", "")
  /\ Log(Settled(i))
  /\ UNCHANGED <<ui, kind, seed, cur, slots, slotKeys, pending, limit, base, wins, savedAt, saveDone>>

(***************************************************************************)
(* The caller                                                              *)
(***************************************************************************)
\* the caller writes to the VisibleState object it was handed
ClientMutate ==
  /\ held # <<>>
  /\ held[1].status # "tampered"
  /\ held' = <<Tamper(held[1])>>
  /\ cur' = [i \in Inst |-> IF CellCur(i) \in aliased THEN held' ELSE cur[i]]
  /\ slots' = [i \in Inst |-> [s \in SlotNames |->
                 IF CellSlot(i, s) \in aliased THEN held' ELSE slots[i][s]]]
  /\ UNCHANGED <<ui, probe, kind, seed, slotKeys, pending, resp, aliased, lag, limit, base, wins,
                 savedAt, saveDone>>

(***************************************************************************)
(* fetchJson and createLiveAdapter                                         *)
(***************************************************************************)
REQUEST_TIMEOUT_MS == 7000

\* the ways fetchJson throws: a non-2xx status with its body, the timer's
\* abort, a network failure, a body that is not JSON
Failures ==
  << [ kind |-> "status", status |-> 500, body |-> "  engine down \n" ],
     [ kind |-> "status", status |-> 404, body |-> "" ],
     [ kind |-> "abort", status |-> 0, body |-> "" ],
     [ kind |-> "network", status |-> 0, body |-> "" ],
     [ kind |-> "syntax", status |-> 200, body |-> "<html>" ] >>

formatResponseError(f) ==
  LET text == trim(f.body)
  IN  IF text = "" THEN "Engine request failed (" \o ToString(f.status) \o ")."
      ELSE "Engine request failed (" \o ToString(f.status) \o "): " \o sliceTo(text, 220)

\* fetchJson's catch block without the AbortError case
fetchJsonError_noAbortCase(f) ==
  IF f.kind = "status" THEN formatResponseError(f)
  ELSE "Engine request failed. Check API base URL and connectivity."

\* the message of the EngineAdapterError fetchJson throws
fetchJsonError(f) ==
  IF f.kind = "status" THEN formatResponseError(f)
  ELSE IF f.kind = "abort" THEN "Engine request timed out. Please retry."
  ELSE "Engine request failed. Check API base URL and connectivity."

GoodState ==
  JObj([ case_id |-> JStr("case_777"), crime_type |-> JStr("Art Theft"), turn |-> JInt(4),
         status |-> JStr("paused"),
         evidence |-> JArr(<< JObj([ id |-> JStr("e9"), label |-> JStr("Ledger"),
                                     category |-> JStr("document"), state |-> JStr("review"),
                                     summary |-> JStr("Entries  match the \t manifest.") ]) >>),
         timeline |-> JArr(<< JObj([ time |-> JStr("2026-03-05"), label |-> JStr("intake"),
                                     details |-> JStr("Evidence logged.") ]) >>),
         investigator_signals |-> JObj([ priority |-> JStr("forensics"),
                                         demeanour |-> JStr("guarded"),
                                         recent_shift |-> JStr("scope balancing") ]),
         pressure |-> JObj([ public |-> JStr("high"), institutional |-> JStr("stable"),
                             personal |-> JStr("low") ]) ])

OddState ==
  JObj([ case_id |-> JInt(12), crime_type |-> JStr("type 2"), turn |-> JStr(" 7.5 "),
         status |-> JStr("rng_state"),
         evidence |-> JArr(<< JNull,
                              JObj([ id |-> JStr("e2"), state |-> JStr("Suppressed"),
                                     summary |-> JStr("Suspect belief at 63% now.") ]) >>),
         timeline |-> JStr("none"),
         pressure |-> JObj([ public |-> JStr("CRITICAL"), institutional |-> JInt(3) ]) ])

GoodActions ==
  JObj([ actions |-> JArr(<< JObj([ id |-> JStr("delay_briefing"), label |-> JStr("Delay"),
                                    enabled |-> JBool(TRUE), cost |-> JStr("0"),
                                    desc |-> JStr("Delay the briefing.") ]),
                             JObj([ id |-> JStr("seal_archive"), enabled |-> JBool(FALSE),
                                    disabled_reason |-> JStr("debug: guard 3 failed") ]) >>) ])

\* the bodies a 2xx response may carry, whatever the endpoint
Payloads ==
  << JNull,
     JStr("ok"),
     GoodState,
     OddState,
     GoodActions,
     JObj([ visible_state |-> GoodState,
            action_result |-> JObj([ success |-> JBool(TRUE),
                                     summary |-> JStr("Briefing delayed.") ]) ]),
     JObj([ visible_state |-> OddState, action_result |-> JInt(1) ]) >>

\* what each handler makes of each body, computed once: row p is the
\* handler's result for Payloads[p]
getVisibleStateResult(payload) == sanitizeVisibleState(payload)

getActionsResult(payload) == sanitizeActionsResponse(payload)

\* reading a property of null throws a TypeError before anything is stored
applyActionResult(payload) ==
  IF payload.t \in {"null", "undefined"}
  THEN [ threw |-> TRUE, visible_state |-> <<>>, action_result |-> <<>> ]
  ELSE [ threw |-> FALSE,
         visible_state |-> <<sanitizeVisibleState(Get(payload, "visible_state"))>>,
         action_result |-> <<sanitizeActionResult(Get(payload, "action_result"))>> ]

RECURSIVE rows(_, _)
rows(F(_), n) == IF n = 0 THEN <<>> ELSE Append(rows(F, n - 1), F(Payloads[n]))

VisibleStateRows == rows(getVisibleStateResult, Len(Payloads))
ActionsRows == rows(getActionsResult, Len(Payloads))
ApplyActionRows == rows(applyActionResult, Len(Payloads))

removeAt(seq, k) == SubSeq(seq, 1, k - 1) \o SubSeq(seq, k + 1, Len(seq))

\* a call settles: the requests still in flight were issued before it
stale(requests) == [k \in 1..Len(requests) |-> [requests[k] EXCEPT !.fresh = FALSE]]

\* a live getVisibleState, getActions or applyAction call runs up to its fetch
LiveRequest(i, op, arg) ==
  /\ kind[i] = "live"
  /\ Len(pending[i]) < limit[i].inflight
  /\ pending' = [pending EXCEPT ![i] = Append(@, [op |-> op, arg |-> arg, fresh |-> TRUE, elapsed |-> 0])]
  /\ Log(Issued(op, arg))
  /\ UNCHANGED <<ui, kind, seed, cur, slots, slotKeys, resp, held, aliased, lag, limit, base, wins,
                 savedAt, saveDone>>

\* time passes for the requests in flight, up to the first timer that is due
LiveTick(i) ==
  /\ kind[i] = "live"
  /\ limit[i].tick > 0
  /\ pending[i] # <<>>
  /\ \A k \in 1..Len(pending[i]) : pending[i][k].elapsed < REQUEST_TIMEOUT_MS
  /\ pending' = [pending EXCEPT ![i] =
                   [k \in 1..Len(@) |->
                      [@[k] EXCEPT !.elapsed =
                         Min(REQUEST_TIMEOUT_MS, @ + limit[i].tick)]]]
  /\ UNCHANGED <<ui, probe, kind, seed, cur, slots, slotKeys, resp, held, aliased, lag, limit, base,
                 wins, savedAt, saveDone>>

\* a failing call that also forgets the retained state
LiveFail_clearsCurrent(i, k, f) ==
  /\ kind[i] = "live"
  /\ k \in 1..Len(pending[i])
  /\ limit[i].tick > 0 => ((f.kind = "abort") <=> (pending[i][k].elapsed >= REQUEST_TIMEOUT_MS))
  /\ pending' = [pending EXCEPT ![i] = stale(removeAt(@, k))]
  /\ resp' = [resp EXCEPT ![i] = Rejected(pending[i][k].op, pending[i][k].arg,
                                           "EngineAdapterError", fetchJsonError(f))]
  /\ cur' = [cur EXCEPT ![i] = <<>>]
  /\ UNCHANGED <<held, aliased>>
  /\ Log(Settled(i))
  /\ UNCHANGED <<ui, kind, seed, slots, slotKeys, lag, limit, base, wins, savedAt, saveDone>>

\* fetchJson throws for the k-th request in flight: the call rejects; the
\* AbortError is the timer's, which fires when REQUEST_TIMEOUT_MS have run
LiveFail(i, k, f) ==
  /\ kind[i] = "live"
  /\ k \in 1..Len(pending[i])
  /\ limit[i].tick > 0 => ((f.kind = "abort") <=> (pending[i][k].elapsed >= REQUEST_TIMEOUT_MS))
  /\ pending' = [pending EXCEPT ![i] = stale(removeAt(@, k))]
  /\ resp' = [resp EXCEPT ![i] = Rejected(pending[i][k].op, pending[i][k].arg,
                                           "EngineAdapterError", fetchJsonError(f))]
  /\ Keep({})
  /\ Log(Settled(i))
  /\ UNCHANGED <<ui, kind, seed, cur, slots, slotKeys, lag, limit, base, wins, savedAt, saveDone>>

\* getVisibleState keeping `current` when another call settled while its
\* request was in flight
LiveGetVisibleState_dropsStale(i, k, p) ==
  /\ kind[i] = "live"
  /\ k \in 1..Len(pending[i])
  /\ pending[i][k].op = "getVisibleState"
  /\ pending[i][k].elapsed < REQUEST_TIMEOUT_MS
  /\ pending' = [pending EXCEPT ![i] = stale(removeAt(@, k))]
  /\ LET current == VisibleStateRows[p]
     IN  /\ cur' = [cur EXCEPT ![i] = IF pending[i][k].fresh THEN <<current>> ELSE @]
         /\ resp' = [resp EXCEPT ![i] = [Resolved("getVisibleState", "") EXCEPT
                                           !.visible_state = <<current>>]]
         /\ Hand(current)
  /\ Log(Settled(i))
  /\ UNCHANGED <<ui, kind, seed, slots, slotKeys, lag, limit, base, wins, savedAt, saveDone>>

\* fetchJson returns Payloads[p] to a getVisibleState call
LiveGetVisibleState(i, k, p) ==
  /\ kind[i] = "live"
  /\ k \in 1..Len(pending[i])
  /\ pending[i][k].op = "getVisibleState"
  /\ pending[i][k].elapsed < REQUEST_TIMEOUT_MS
  /\ pending' = [pending EXCEPT ![i] = stale(removeAt(@, k))]
  /\ LET current == VisibleStateRows[p]
     IN  /\ cur' = [cur EXCEPT ![i] = <<current>>]
         /\ resp' = [resp EXCEPT ![i] = [Resolved("getVisibleState", "") EXCEPT
                                           !.visible_state = <<current>>]]
         /\ Hand(current)
  /\ Log(Settled(i))
  /\ UNCHANGED <<ui, kind, seed, slots, slotKeys, lag, limit, base, wins, savedAt, saveDone>>

\* getActions setting `current` back to null before it returns
LiveGetActions_forgets(i, k, p) ==
  /\ kind[i] = "live"
  /\ k \in 1..Len(pending[i])
  /\ pending[i][k].op = "getActions"
  /\ pending[i][k].elapsed < REQUEST_TIMEOUT_MS
  /\ pending' = [pending EXCEPT ![i] = stale(removeAt(@, k))]
  /\ resp' = [resp EXCEPT ![i] = [Resolved("getActions", "") EXCEPT
                                    !.actions = <<ActionsRows[p]>>]]
  /\ Keep({})
  /\ cur' = [cur EXCEPT ![i] = <<>>]
  /\ Log(Settled(i))
  /\ UNCHANGED <<ui, kind, seed, slots, slotKeys, lag, limit, base, wins, savedAt, saveDone>>

\* fetchJson returns Payloads[p] to a getActions call
LiveGetActions(i, k, p) ==
  /\ kind[i] = "live"
  /\ k \in 1..Len(pending[i])
  /\ pending[i][k].op = "getActions"
  /\ pending[i][k].elapsed < REQUEST_TIMEOUT_MS
  /\ pending' = [pending EXCEPT ![i] = stale(removeAt(@, k))]
  /\ resp' = [resp EXCEPT ![i] = [Resolved("getActions", "") EXCEPT
                                    !.actions = <<ActionsRows[p]>>]]
  /\ Keep({})
  /\ Log(Settled(i))
  /\ UNCHANGED <<ui, kind, seed, cur, slots, slotKeys, lag, limit, base, wins, savedAt, saveDone>>

\* fetchJson returns Payloads[p] to an applyAction call
LiveApplyAction(i, k, p) ==
  /\ kind[i] = "live"
  /\ k \in 1..Len(pending[i])
  /\ pending[i][k].op = "applyAction"
  /\ pending[i][k].elapsed < REQUEST_TIMEOUT_MS
  /\ pending' = [pending EXCEPT ![i] = stale(removeAt(@, k))]
  /\ LET result == ApplyActionRows[p]
     IN  IF result.threw
         THEN /\ resp' = [resp EXCEPT ![i] =
                            Rejected("applyAction", pending[i][k].arg, "TypeError",
                                     "Cannot read properties of null (reading 'visible_state')")]
              /\ Keep({})
              /\ UNCHANGED cur
         ELSE /\ cur' = [cur EXCEPT ![i] = result.visible_state]
              /\ resp' = [resp EXCEPT ![i] =
                            [Resolved("applyAction", pending[i][k].arg) EXCEPT
                               !.visible_state = result.visible_state,
                               !.action_result = result.action_result]]
              /\ Hand(result.visible_state[1])
  /\ Log(Settled(i))
  /\ UNCHANGED <<ui, kind, seed, slots, slotKeys, lag, limit, base, wins, savedAt, saveDone>>

LiveSaveSlot(i, slotId) ==
  /\ kind[i] = "live"
  /\ IF cur[i] = <<>>
     THEN UNCHANGED <<slots, slotKeys, savedAt, aliased>>
     ELSE /\ slots' = [slots EXCEPT ![i][slotId] = cur[i]]
          /\ slotKeys' = [slotKeys EXCEPT ![i] = setKey(@, slotId)]
          /\ savedAt' = [savedAt EXCEPT ![i][slotId] = cur[i]]
          /\ aliased' = aliased \ {CellSlot(i, slotId)}
  /\ resp' = [resp EXCEPT ![i] = Resolved("saveSlot", slotId)]
  /\ saveDone' = [saveDone EXCEPT ![i] = @ \cup {slotId}]
  /\ pending' = [pending EXCEPT ![i] = stale(@)]
  /\ Log(Settled(i))
  /\ UNCHANGED <<ui, kind, seed, cur, held, lag, limit, base, wins>>

\* loadSlot assigning `current` before it tests the snapshot
LiveLoadSlot_assignsFirst(i, slotId) ==
  /\ kind[i] = "live"
  /\ LET snapshot == slots[i][slotId]
     IN  /\ cur' = [cur EXCEPT ![i] = snapshot]
         /\ IF snapshot = <<>>
            THEN /\ resp' = [resp EXCEPT ![i] =
                               Rejected("loadSlot", slotId, "EngineAdapterError",
                                        unknownSlotMessage(slotId))]
                 /\ Keep({})
            ELSE /\ resp' = [resp EXCEPT ![i] = [Resolved("loadSlot", slotId) EXCEPT
                                                   !.visible_state = snapshot]]
                 /\ Hand(snapshot[1])
  /\ pending' = [pending EXCEPT ![i] = stale(@)]
  /\ Log(Settled(i))
  /\ UNCHANGED <<ui, kind, seed, slots, slotKeys, lag, limit, base, wins, savedAt, saveDone>>

LiveLoadSlot(i, slotId) ==
  /\ kind[i] = "live"
  /\ LET snapshot == slots[i][slotId]
     IN  IF snapshot = <<>>
         THEN /\ resp' = [resp EXCEPT ![i] =
                            Rejected("loadSlot", slotId, "EngineAdapterError",
                                     unknownSlotMessage(slotId))]
              /\ Keep({})
              /\ UNCHANGED cur
         ELSE /\ cur' = [cur EXCEPT ![i] = snapshot]
              /\ resp' = [resp EXCEPT ![i] = [Resolved("loadSlot", slotId) EXCEPT
                                                !.visible_state = snapshot]]
              /\ Hand(snapshot[1])
  /\ pending' = [pending EXCEPT ![i] = stale(@)]
  /\ Log(Settled(i))
  /\ UNCHANGED <<ui, kind, seed, slots, slotKeys, lag, limit, base, wins, savedAt, saveDone>>

LiveListSlots(i) ==
  /\ kind[i] = "live"
  /\ resp' = [resp EXCEPT ![i] = [Resolved("listSlots", "") EXCEPT !.names = DEFAULT_SLOTS]]
  /\ Keep({})
  /\ pending' = [pending EXCEPT ![i] = stale(@)]
  /\ Log(Settled(i))
  /\ UNCHANGED <<ui, kind, seed, cur, slots, slotKeys, lag, limit, base, wins, savedAt, saveDone>>

(***************************************************************************)
(* Creation                                                                *)
(***************************************************************************)
NoInstance(v, none) == [i \in Inst |-> IF i = 1 THEN v ELSE none]

EmptySlots == [s \in SlotNames |-> <<>>]

NoLimit == [turn |-> 0, inflight |-> 0, tick |-> 0]

RECURSIVE warmState(_, _)
\* the mock state after n reframe_priority actions
warmState(sd, n) ==
  IF n = 0 THEN createInitialMockState(sd)
  ELSE applyMockAction(warmState(sd, n - 1), "reframe_priority").visible_state

\* the adapters hold nothing but their own cells
InitCommon ==
  /\ slots = [i \in Inst |-> EmptySlots]
  /\ slotKeys = [i \in Inst |-> <<>>]
  /\ pending = [i \in Inst |-> <<>>]
  /\ resp = [i \in Inst |-> NoResp]
  /\ held = <<>>
  /\ aliased = {}
  /\ lag = <<>>
  /\ savedAt = [i \in Inst |-> EmptySlots]
  /\ saveDone = [i \in Inst |-> {}]
  /\ probe = <<>>
  /\ ui = <<>>

\* createMockAdapter(sd) as the only adapter, n reframe_priority actions later
InitMock(sd, n, steps) ==
  LET s0 == warmState(sd, n)
  IN  /\ kind = NoInstance("mock", "none")
      /\ seed = NoInstance(sd, 0)
      /\ cur = NoInstance(<<s0>>, <<>>)
      /\ limit = NoInstance([turn |-> s0.turn + steps, inflight |-> 0, tick |-> 0], NoLimit)
      /\ base = NoInstance(s0.turn - n, 0)
      /\ wins = NoInstance(n, 0)
      /\ InitCommon

\* createLiveAdapter(apiBase) as the only adapter, in a run with clock ticks
\* of the given length
InitLiveClock(tick) ==
  /\ kind = NoInstance("live", "none")
  /\ seed = [i \in Inst |-> 0]
  /\ cur = [i \in Inst |-> <<>>]
  /\ limit = NoInstance([turn |-> 0, inflight |-> MaxInflight, tick |-> tick], NoLimit)
  /\ base = [i \in Inst |-> 0]
  /\ wins = [i \in Inst |-> 0]
  /\ InitCommon

\* createLiveAdapter(apiBase) as the only adapter
InitLive == InitLiveClock(0)

\* two mock adapters created with the same seed
InitTwins(sd) ==
  LET s0 == createInitialMockState(sd)
  IN  /\ kind = [i \in Inst |-> "mock"]
      /\ seed = [i \in Inst |-> sd]
      /\ cur = [i \in Inst |-> <<s0>>]
      /\ limit = [i \in Inst |-> [turn |-> s0.turn + MaxSteps, inflight |-> 0, tick |-> 0]]
      /\ base = [i \in Inst |-> s0.turn]
      /\ wins = [i \in Inst |-> 0]
      /\ InitCommon

(***************************************************************************)
(* Spec: createEngineAdapter() chose one adapter, mock or live, and the    *)
(* caller uses all of its operations.                                      *)
(***************************************************************************)
Init == (\E sd \in Seeds : InitMock(sd, 0, MaxSnapSteps)) \/ InitLive

MockNext(i) ==
  \/ MockGetVisibleState(i)
  \/ MockGetActions(i)
  \/ \E a \in ActionIds : MockApplyAction(i, a)
  \/ \E s \in SlotNames : MockSaveSlot(i, s)
  \/ \E s \in SlotNames : MockLoadSlot(i, s)
  \/ MockListSlots(i)

LiveNext(i) ==
  \/ LiveRequest(i, "getVisibleState", "")
  \/ LiveRequest(i, "getActions", "")
  \/ \E a \in LiveActionIds : LiveRequest(i, "applyAction", a)
  \/ \E k \in 1..MaxInflight, f \in 1..Len(Failures) : LiveFail(i, k, Failures[f])
  \/ \E k \in 1..MaxInflight, p \in 1..Len(Payloads) : LiveGetVisibleState(i, k, p)
  \/ \E k \in 1..MaxInflight, p \in 1..Len(Payloads) : LiveGetActions(i, k, p)
  \/ \E k \in 1..MaxInflight, p \in 1..Len(Payloads) : LiveApplyAction(i, k, p)
  \/ \E s \in SlotNames : LiveSaveSlot(i, s)
  \/ \E s \in SlotNames : LiveLoadSlot(i, s)
  \/ LiveListSlots(i)

Next == MockNext(1) \/ LiveNext(1) \/ ClientMutate

Spec == Init /\ [][Next]_vars

(***************************************************************************)
(* SpecEngine: the mock engine alone, driven by applyAction only, from the *)
(* created state or from the state WarmUp reframe_priority actions later.  *)
(***************************************************************************)
InitEngine == \E sd \in Seeds, n \in {0, WarmUp} : InitMock(sd, n, MaxSteps)

NextEngine == \E a \in ActionIds : MockApplyAction(1, a)

SpecEngine == InitEngine /\ [][NextEngine]_vars

(***************************************************************************)
(* SpecTwins: two mock adapters created with the same seed; every call     *)
(* made on the first is then made on the second.                           *)
(***************************************************************************)
InitTwinSeeds == \E sd \in Seeds : InitTwins(sd)

TwinLead ==
  /\ lag = <<>>
  /\ \/ MockGetVisibleState(1)
     \/ \E a \in ActionIds : MockApplyAction(1, a)

TwinFollow ==
  /\ lag # <<>>
  /\ \/ lag[1].op = "getVisibleState" /\ MockGetVisibleState(2)
     \/ lag[1].op = "applyAction" /\ MockApplyAction(2, lag[1].arg)

NextTwins == TwinLead \/ TwinFollow

SpecTwins == InitTwinSeeds /\ [][NextTwins]_vars

(***************************************************************************)
(* SpecAvailability: the mock adapter from the created state or the state  *)
(* WarmUp reframe_priority actions later, with applyAction, getActions    *)
(* and one slot to save to and load from.                                  *)
(***************************************************************************)
NextAvailability ==
  \/ \E a \in CATALOGUE : MockApplyAction(1, a)
  \/ MockGetActions(1)
  \/ MockSaveSlot(1, "page-a")
  \/ MockLoadSlot(1, "page-a")

SpecAvailability == InitEngine /\ [][NextAvailability]_vars

(***************************************************************************)
(* SpecLifecycle: the mock adapter from the created state of seeds whose   *)
(* states differ in every pressure label and in the evidence surfaced,     *)
(* with applyAction and one slot to save to and load from.                 *)
(***************************************************************************)
\* created with public/institutional/personal pressure and surfaced items:
\* 3: low/low/elevated, 1;  5: moderate/moderate/moderate, 2;
\* 9: elevated/low/elevated, 2;  37: elevated/moderate/moderate, 2
LifecycleSeeds == {3, 5, 9, 37}

\* the successful actions of a run of SpecLifecycle
MaxActions == 4

InitLifecycle == \E sd \in LifecycleSeeds : InitMock(sd, 0, MaxActions)

NextLifecycle ==
  \/ \E a \in CATALOGUE : MockApplyAction(1, a)
  \/ MockSaveSlot(1, "page-a")
  \/ MockLoadSlot(1, "page-a")

SpecLifecycle == InitLifecycle /\ [][NextLifecycle]_vars

(***************************************************************************)
(* SpecTimer: the live adapter's requests against the clock.  A tick is    *)
(* the TimerTicks-th part of REQUEST_TIMEOUT_MS.                           *)
(***************************************************************************)
InitTimer == InitLiveClock(REQUEST_TIMEOUT_MS \div TimerTicks)

NextTimer ==
  \/ LiveRequest(1, "getVisibleState", "")
  \/ LiveRequest(1, "getActions", "")
  \/ \E a \in LiveActionIds : LiveRequest(1, "applyAction", a)
  \/ LiveTick(1)
  \/ \E k \in 1..MaxInflight, f \in 1..Len(Failures) : LiveFail(1, k, Failures[f])
  \/ \E k \in 1..MaxInflight, p \in 1..Len(Payloads) : LiveGetVisibleState(1, k, p)
  \/ \E k \in 1..MaxInflight, p \in 1..Len(Payloads) : LiveGetActions(1, k, p)
  \/ \E k \in 1..MaxInflight, p \in 1..Len(Payloads) : LiveApplyAction(1, k, p)

SpecTimer == InitTimer /\ [][NextTimer]_vars

(***************************************************************************)
(* SpecShift: shiftPressure called on its own, on every PressureLabel and  *)
(* then on its own results.                                                *)
(***************************************************************************)
PressureLabels ==
  {"low", "moderate", "elevated", "high", "critical",
   "uncertain", "probable", "contradictory", "stable", "fragile"}

\* calls of shiftPressure in a row
MaxShifts == 8

InitShift ==
  /\ ui = <<>>
  /\ kind = [i \in Inst |-> "none"]
  /\ seed = [i \in Inst |-> 0]
  /\ cur = [i \in Inst |-> <<>>]
  /\ limit = [i \in Inst |-> NoLimit]
  /\ base = [i \in Inst |-> 0]
  /\ wins = [i \in Inst |-> 0]
  /\ slots = [i \in Inst |-> EmptySlots]
  /\ slotKeys = [i \in Inst |-> <<>>]
  /\ pending = [i \in Inst |-> <<>>]
  /\ resp = [i \in Inst |-> NoResp]
  /\ held = <<>>
  /\ aliased = {}
  /\ lag = <<>>
  /\ savedAt = [i \in Inst |-> EmptySlots]
  /\ saveDone = [i \in Inst |-> {}]
  /\ \E label \in PressureLabels :
       probe = [current |-> label, delta |-> 0, returned |-> label, calls |-> 0]

\* shiftPressure(returned, delta), on what the call before returned
ShiftPressure(delta) ==
  /\ probe.calls < MaxShifts
  /\ probe' = [current |-> probe.returned, delta |-> delta,
               returned |-> shiftPressure(probe.returned, delta),
               calls |-> probe.calls + 1]
  /\ UNCHANGED <<ui, kind, seed, cur, slots, slotKeys, pending, resp, held, aliased, lag, limit,
                 base, wins, savedAt, saveDone>>

NextShift == \E delta \in {-1, 1} : ShiftPressure(delta)

SpecShift == InitShift /\ [][NextShift]_vars

(***************************************************************************)
(* SpecSanitize: the sanitizers as functions.  The initial state holds one *)
(* input of one sanitizer and the only step applies the sanitizer to it.   *)
(* The inputs are the JSON values a response body can carry: GoodState     *)
(* with one field replaced by each of RawValues, bodies that are no        *)
(* object, and timelines of every length up to MaxEntries.                 *)
(***************************************************************************)
\* no adapter was created
NoAdapters ==
  /\ kind = [i \in Inst |-> "none"]
  /\ seed = [i \in Inst |-> 0]
  /\ cur = [i \in Inst |-> <<>>]
  /\ limit = [i \in Inst |-> NoLimit]
  /\ base = [i \in Inst |-> 0]
  /\ wins = [i \in Inst |-> 0]
  /\ slots = [i \in Inst |-> EmptySlots]
  /\ slotKeys = [i \in Inst |-> <<>>]
  /\ pending = [i \in Inst |-> <<>>]
  /\ resp = [i \in Inst |-> NoResp]
  /\ held = <<>>
  /\ aliased = {}
  /\ lag = <<>>
  /\ savedAt = [i \in Inst |-> EmptySlots]
  /\ saveDone = [i \in Inst |-> {}]

\* the longest timeline and evidence list of an input
MaxEntries == 13

\* the length of the longest text of an input beyond a descriptor's limit
MaxOverrun == 2

RECURSIVE repeat(_, _)
repeat(s, n) == IF n = 0 THEN "" ELSE s \o repeat(s, n - 1)

\* the texts a string field of an input may hold
Texts ==
  << "", "  \t ", "paused", " Closed ", "CRITICAL", "surfaced", "Ledger  entry",
     "scope-balancing", "type 2", "seed", "The SEED value.", "rng_state",
     "debug: guard failed", "Hypothesis", "disbelief", "suspicion", "credibility",
     "Confidence is high", "likelihood", "probability", "63%", "up 12.5% now", "63 %",
     "seeded", "case_777", "2026-03-05", repeat("word ", 24) \o "rng" >>

\* the values a field of an input may hold; JUndef is the missing key
RawValues ==
  << JUndef, JNull, JBool(TRUE), JBool(FALSE), JInt(0), JInt(3), JInt(-2),
     JNum(FALSE, 7, TRUE), JNum(TRUE, 0, TRUE), JArr(<<>>), JArr(<<JInt(5)>>),
     JObj([ state |-> JStr("review") ]) >>
  \o [k \in 1..Len(Texts) |-> JStr(Texts[k])]
  \o [k \in 1..MaxOverrun |-> JStr(repeat("a", 62 + k) \o "7")]

\* the fields of a visible_state body
StatePaths ==
  << <<"case_id">>, <<"crime_type">>, <<"turn">>, <<"status">>,
     <<"evidence", "id">>, <<"evidence", "label">>, <<"evidence", "category">>,
     <<"evidence", "state">>, <<"evidence", "summary">>,
     <<"timeline", "time">>, <<"timeline", "label">>, <<"timeline", "details">>,
     <<"investigator_signals", "priority">>, <<"investigator_signals", "demeanour">>,
     <<"investigator_signals", "recent_shift">>,
     <<"pressure", "public">>, <<"pressure", "institutional">>, <<"pressure", "personal">> >>

\* GoodState with the field at path holding v
withField(path, v) ==
  LET top == path[1]
      part == GoodState.o[top]
  IN  IF Len(path) = 1 THEN JObj([GoodState.o EXCEPT ![top] = v])
      ELSE IF part.t = "array"
      THEN JObj([GoodState.o EXCEPT
                   ![top] = JArr(<<JObj([part.a[1].o EXCEPT ![path[2]] = v])>>)])
      ELSE JObj([GoodState.o EXCEPT ![top] = JObj([part.o EXCEPT ![path[2]] = v])])

\* GoodState with n entries in its timeline and in its evidence list
withEntries(n) ==
  JObj([GoodState.o EXCEPT
          !.timeline = JArr([k \in 1..n |-> JObj([ time |-> JStr("2026-03-05"),
                                                  label |-> JStr("intake"),
                                                  details |-> JStr("Evidence logged.") ])]),
          !.evidence = JArr([k \in 1..n |-> JObj([ state |-> JStr("review") ])])])

\* bodies that are no visible_state object
OddBodies ==
  << JNull, JStr("ok"), JInt(5), JBool(TRUE), JArr(<<>>), JObj([ ok |-> JBool(TRUE) ]), OddState,
     JObj([GoodState.o EXCEPT !.evidence = JArr(<<JNull, JStr("e1"), JInt(2)>>),
                              !.timeline = JArr(<<JNull, JArr(<<>>)>>),
                              !.pressure = JNull, !.investigator_signals = JStr("calm")]) >>

NoProbe == [ fn |-> "", input |-> JUndef, index |-> 0, fallback |-> "", done |-> FALSE, out |-> <<>> ]

ProbeOf(fn, input) == [NoProbe EXCEPT !.fn = fn, !.input = input]

\* the object o with key f holding v
setField(o, f, v) == [k \in DOMAIN o \cup {f} |-> IF k = f THEN v ELSE o[k]]

\* the keys of an action and of an action result
ActionFields == <<"id", "label", "enabled", "cost", "desc", "disabled_reason">>

ResultFields == <<"success", "summary">>

\* an enabled and a disabled action
BaseActions == GoodActions.o.actions.a

BaseResult == [ success |-> JBool(TRUE), summary |-> JStr("Briefing delayed.") ]

\* elements of arrays that are no object
OddItems == << JNull, JStr("remove_evidence"), JInt(1), JArr(<<>>) >>

\* the fallbacks the sanitizers pass to sanitizeDescriptor
Fallbacks == <<"uncertain", "active", "logged", "general", "unknown">>

RECURSIVE replay(_, _)
\* the mock state after applyAction with each of ids in turn
replay(state, ids) ==
  IF ids = <<>> THEN state
  ELSE replay(applyMockAction(state, Head(ids)).visible_state, Tail(ids))

InitSanitize ==
  /\ NoAdapters
  /\ ui = <<>>
  /\ \/ \E p \in 1..Len(StatePaths), v \in 1..Len(RawValues) :
          probe = ProbeOf("sanitizeVisibleState", withField(StatePaths[p], RawValues[v]))
     \/ \E b \in 1..Len(OddBodies) : probe = ProbeOf("sanitizeVisibleState", OddBodies[b])
     \/ \E n \in 0..MaxEntries : probe = ProbeOf("sanitizeVisibleState", withEntries(n))
     \/ \E b \in 1..Len(BaseActions), f \in 1..Len(ActionFields), v \in 1..Len(RawValues) :
          probe = [ProbeOf("sanitizeAction",
                           JObj(setField(BaseActions[b].o, ActionFields[f], RawValues[v])))
                     EXCEPT !.index = b - 1]
     \/ \E b \in 1..Len(OddItems) :
          probe = [ProbeOf("sanitizeAction", OddItems[b]) EXCEPT !.index = b + 1]
     \/ \E f \in 1..Len(ResultFields), v \in 1..Len(RawValues) :
          probe = ProbeOf("sanitizeActionResult",
                          JObj(setField(BaseResult, ResultFields[f], RawValues[v])))
     \/ \E b \in 1..Len(OddItems) : probe = ProbeOf("sanitizeActionResult", OddItems[b])
     \/ \E v \in 1..Len(RawValues), d \in 1..Len(Fallbacks) :
          probe = [ProbeOf("sanitizeDescriptor", RawValues[v]) EXCEPT !.fallback = Fallbacks[d]]
     \/ \E sd \in Seeds, n \in 0..MaxSteps :
          \E ids \in [1..n -> CATALOGUE] :
            /\ probe = ProbeOf("buildMockActions", replay(createInitialMockState(sd), ids))

\* the sanitizer's result for the input
Computed(fn, out) ==
  /\ probe.fn = fn
  /\ ~probe.done
  /\ probe' = [probe EXCEPT !.done = TRUE, !.out = <<out>>]
  /\ UNCHANGED <<ui, kind, seed, cur, slots, slotKeys, pending, resp, held, aliased, lag, limit,
                 base, wins, savedAt, saveDone>>

SanitizeVisibleState == Computed("sanitizeVisibleState", sanitizeVisibleState(probe.input))

SanitizeAction == Computed("sanitizeAction", sanitizeAction(probe.input, probe.index))

SanitizeActionResult == Computed("sanitizeActionResult", sanitizeActionResult(probe.input))

SanitizeDescriptor ==
  Computed("sanitizeDescriptor", sanitizeDescriptor(probe.input, probe.fallback))

BuildMockActions == Computed("buildMockActions", buildMockActions(probe.input))

NextSanitize ==
  \/ BuildMockActions
  \/ SanitizeVisibleState
  \/ SanitizeAction
  \/ SanitizeActionResult
  \/ SanitizeDescriptor

SpecSanitize == InitSanitize /\ [][NextSanitize]_vars

(***************************************************************************)
(* SpecSeed: the seed of the mock engine.  The initial state holds a query *)
(* string for getSeedFromUrl, built around the text of its seed parameter, *)
(* or a seed for createInitialMockState; the only step applies the         *)
(* function.  Seeds stay below 2^31 and the digits of a parameter within   *)
(* what parseInt reads exactly.                                            *)
(***************************************************************************)
\* the position of the first c in s, 0 when there is none
firstIndex(s, c) ==
  IF \E k \in 1..Len(s) : charAt(s, k) = c
  THEN CHOOSE k \in 1..Len(s) : charAt(s, k) = c /\ \A j \in 1..(k - 1) : charAt(s, j) # c
  ELSE 0

RECURSIVE split(_, _)
\* s.split(c)
split(s, c) ==
  LET k == firstIndex(s, c)
  IN  IF k = 0 THEN <<s>>
      ELSE <<SubSeq(s, 1, k - 1)>> \o split(SubSeq(s, k + 1, Len(s)), c)

\* the characters with codes 0x20 to 0x5F and 0x61 to 0x7E, in order
ASCII_LOW == " !" \o "\"" \o "#$%&'()*+,-./" \o DIGITS \o ":;<=>?@" \o UPPER \o "[" \o "\\" \o "]^_"

ASCII_HIGH == LOWER \o "{|}~"

\* String.fromCharCode(code) for the codes of the two tables
fromCharCode(code) ==
  IF code <= 95 THEN charAt(ASCII_LOW, code - 31) ELSE charAt(ASCII_HIGH, code - 96)

HEXDIGITS == "0123456789abcdef"

isHex(c) == inChars(lowerChar(c), HEXDIGITS)

hexValue(c) == posIn(lowerChar(c), HEXDIGITS) - 1

RECURSIVE formDecode(_)
\* the application/x-www-form-urlencoded decoding of a name or a value: a
\* plus sign is a space and %XX the character with that code.  The model
\* decodes the codes of the two tables; the queries of the model escape no
\* other.
formDecode(s) ==
  LET code == 16 * hexValue(charAt(s, 2)) + hexValue(charAt(s, 3))
  IN  IF s = "" THEN ""
      ELSE IF charAt(s, 1) = "+" THEN " " \o formDecode(Tail(s))
      ELSE IF /\ charAt(s, 1) = "%" /\ Len(s) >= 3 /\ isHex(charAt(s, 2)) /\ isHex(charAt(s, 3))
              /\ code \in (32..95) \cup (97..126)
      THEN fromCharCode(code) \o formDecode(SubSeq(s, 4, Len(s)))
      ELSE charAt(s, 1) \o formDecode(Tail(s))

\* new URLSearchParams(source).get(name)
searchParamsGet(source, name) ==
  LET body == IF source # "" /\ charAt(source, 1) = "?" THEN Tail(source) ELSE source
      pieces == split(body, "&")
      nameOf(piece) == LET k == firstIndex(piece, "=")
                       IN  formDecode(IF k = 0 THEN piece ELSE SubSeq(piece, 1, k - 1))
      valueOf(piece) == LET k == firstIndex(piece, "=")
                        IN  IF k = 0 THEN "" ELSE formDecode(SubSeq(piece, k + 1, Len(piece)))
      hits == {k \in 1..Len(pieces) : pieces[k] # "" /\ nameOf(pieces[k]) = name}
  IN  IF hits = {} THEN Absent
      ELSE Present(valueOf(pieces[CHOOSE k \in hits : \A j \in hits : k <= j]))

\* Number.parseInt(s, 10): leading white space, a sign, then the longest
\* run of digits; NaN when there is no digit
parseInt10(s) ==
  LET body == trimStart(s)
      neg == body # "" /\ charAt(body, 1) = "-"
      signed == body # "" /\ charAt(body, 1) \in {"-", "+"}
      mag == IF signed THEN Tail(body) ELSE body
      digits == SubSeq(mag, 1, digitRunEnd(mag, 1) - 1)
  IN  IF digits = "" THEN JNaN ELSE JNum(neg, toNat(digits), FALSE)

\* getSeedFromUrl returning the parsed number without Math.abs
getSeedFromUrl_noAbs(search) ==
  LET param == searchParamsGet(search, "seed")
      parsed == parseInt10(IF param = Absent THEN "1" ELSE param[1])
  IN  IF parsed.k # "finite" \/ parsed.int = 0 THEN 1
      ELSE IF parsed.neg THEN 0 - parsed.int ELSE parsed.int

getSeedFromUrl(search) ==
  LET param == searchParamsGet(search, "seed")
      parsed == parseInt10(IF param = Absent THEN "1" ELSE param[1])
  IN  IF parsed.k # "finite" \/ parsed.int = 0 THEN 1 ELSE parsed.int

\* the texts of a seed parameter that need no escaping
SeedTexts ==
  << "7", "0", "-0", "-12", "abc", "", "12abc", "1.9", "0x1F", "1e3", "007", "2147483647",
     "-2147483647", "--5", "-", "NaN", "Infinity", "-abc", "00", "42", "-7.5", ".5" >>

\* what may stand before and after the first seed parameter of a query
QueryPrefixes == << "", "?", "?a=1&", "?Seed=5&", "?&&", "?x=seed=3&" >>

QuerySuffixes == << "", "&seed=8" >>

\* queries with their seed parameter escaped, or without one
OddQueries ==
  << [ search |-> "?seed=%2D3", param |-> <<"-3">> ],
     [ search |-> "?seed=+5", param |-> <<" 5">> ],
     [ search |-> "?seed=%2b5", param |-> <<"+5">> ],
     [ search |-> "?%73eed=%20-9", param |-> <<" -9">> ],
     [ search |-> "?seed", param |-> <<"">> ],
     [ search |-> "seed=%31%30", param |-> <<"10">> ],
     [ search |-> "", param |-> <<>> ],
     [ search |-> "?", param |-> <<>> ],
     [ search |-> "?a=1&b=2", param |-> <<>> ],
     [ search |-> "?Seed=4", param |-> <<>> ],
     [ search |-> "?seeds=4", param |-> <<>> ],
     [ search |-> "?x=seed=3", param |-> <<>> ] >>

\* the seeds 1..MaxSeed are tried, and those of LargeSeeds
MaxSeed == 48

LargeSeeds == <<899, 900, 901, 65535, 65536, 16777216, 2147483646, 2147483647>>

InitSeed ==
  /\ NoAdapters
  /\ ui = <<>>
  /\ \/ \E a \in 1..Len(QueryPrefixes), t \in 1..Len(SeedTexts), z \in 1..Len(QuerySuffixes) :
          probe = ProbeOf("getSeedFromUrl",
                          [ search |-> QueryPrefixes[a] \o "seed=" \o SeedTexts[t]
                                         \o QuerySuffixes[z],
                            param |-> <<SeedTexts[t]>> ])
     \/ \E q \in 1..Len(OddQueries) : probe = ProbeOf("getSeedFromUrl", OddQueries[q])
     \/ \E sd \in 1..MaxSeed : probe = ProbeOf("createInitialMockState", sd)
     \/ \E k \in 1..Len(LargeSeeds) : probe = ProbeOf("createInitialMockState", LargeSeeds[k])

GetSeedFromUrl == Computed("getSeedFromUrl", getSeedFromUrl(probe.input.search))

CreateInitialMockState ==
  Computed("createInitialMockState", createInitialMockState(probe.input))

NextSeed ==
  \/ GetSeedFromUrl
  \/ CreateInitialMockState

SpecSeed == InitSeed /\ [][NextSeed]_vars

(***************************************************************************)
(* SpecRace: a live adapter whose caller issues a second call before the   *)
(* first has settled, and records what it issued and what settled.         *)
(* SpecBatch: a mock adapter whose caller issues calls one after the other *)
(* without awaiting any, and records them.                                 *)
(***************************************************************************)
\* the events of a recorded live run, and the calls of a recorded mock run
MaxEvents == 5

MaxCalls == 3

\* the adapters hold nothing but their own cells, and the caller's record
\* is open
InitLogged ==
  /\ slots = [i \in Inst |-> EmptySlots]
  /\ slotKeys = [i \in Inst |-> <<>>]
  /\ pending = [i \in Inst |-> <<>>]
  /\ resp = [i \in Inst |-> NoResp]
  /\ held = <<>>
  /\ aliased = {}
  /\ lag = <<>>
  /\ savedAt = [i \in Inst |-> EmptySlots]
  /\ saveDone = [i \in Inst |-> {}]
  /\ probe = <<LogStart>>
  /\ ui = <<>>

InitRace ==
  /\ kind = NoInstance("live", "none")
  /\ seed = [i \in Inst |-> 0]
  /\ cur = [i \in Inst |-> <<>>]
  /\ limit = NoInstance([turn |-> 0, inflight |-> 2, tick |-> 0], NoLimit)
  /\ base = [i \in Inst |-> 0]
  /\ wins = [i \in Inst |-> 0]
  /\ InitLogged

NextRace ==
  \/ Len(probe) <= MaxEvents /\ LiveRequest(1, "getVisibleState", "")
  \/ \E a \in LiveActionIds : Len(probe) <= MaxEvents /\ LiveRequest(1, "applyAction", a)
  \/ \E k \in 1..2, p \in 1..Len(Payloads) :
       Len(probe) <= MaxEvents /\ LiveGetVisibleState(1, k, p)
  \/ \E k \in 1..2, p \in 1..Len(Payloads) :
       Len(probe) <= MaxEvents /\ LiveApplyAction(1, k, p)
  \/ Len(probe) <= MaxEvents /\ LiveSaveSlot(1, "page-a")

SpecRace == InitRace /\ [][NextRace]_vars

InitBatch ==
  \E sd \in Seeds :
    LET s0 == createInitialMockState(sd)
    IN  /\ kind = NoInstance("mock", "none")
        /\ seed = NoInstance(sd, 0)
        /\ cur = NoInstance(<<s0>>, <<>>)
        /\ limit = NoInstance([turn |-> s0.turn + MaxCalls, inflight |-> 0, tick |-> 0], NoLimit)
        /\ base = NoInstance(s0.turn, 0)
        /\ wins = [i \in Inst |-> 0]
        /\ InitLogged

NextBatch ==
  \/ Len(probe) <= MaxCalls /\ MockGetVisibleState(1)
  \/ Len(probe) <= MaxCalls /\ MockGetActions(1)
  \/ \E a \in CATALOGUE : Len(probe) <= MaxCalls /\ MockApplyAction(1, a)
  \/ Len(probe) <= MaxCalls /\ MockSaveSlot(1, "page-a")
  \/ Len(probe) <= MaxCalls /\ MockLoadSlot(1, "page-a")
  \/ Len(probe) <= MaxCalls /\ MockListSlots(1)

SpecBatch == InitBatch /\ [][NextBatch]_vars

(***************************************************************************)
(* SpecHistory: a mock adapter whose caller awaits every call and records  *)
(* it: applyAction, and one slot to save to and load from.                 *)
(***************************************************************************)
\* the calls of a recorded run of SpecHistory
MaxHistory == 5

InitHistory ==
  \E sd \in Seeds :
    LET s0 == createInitialMockState(sd)
    IN  /\ kind = NoInstance("mock", "none")
        /\ seed = NoInstance(sd, 0)
        /\ cur = NoInstance(<<s0>>, <<>>)
        /\ limit = NoInstance([turn |-> s0.turn + MaxHistory, inflight |-> 0, tick |-> 0], NoLimit)
        /\ base = NoInstance(s0.turn, 0)
        /\ wins = [i \in Inst |-> 0]
        /\ InitLogged

NextHistory ==
  \/ \E a \in CATALOGUE : Len(probe) <= MaxHistory /\ MockApplyAction(1, a)
  \/ Len(probe) <= MaxHistory /\ MockSaveSlot(1, "page-a")
  \/ Len(probe) <= MaxHistory /\ MockLoadSlot(1, "page-a")

SpecHistory == InitHistory /\ [][NextHistory]_vars

(***************************************************************************)
(* App: the component that owns the adapter.  ui holds its React state,    *)
(* and for every handler in flight the adapter calls it has still to make  *)
(* in its running synchronous section, the calls it awaits, and the        *)
(* results it has got.  The adapter records each call, and App takes the   *)
(* entry off the record: an adapter method runs in one step, and the       *)
(* handler goes on in the next.  The page is always page-a.                *)
(***************************************************************************)
\* the handlers the user starts in a run, after the one App starts itself
MaxHandlers == 2

PAGES == <<"page-a", "page-b", "page-c">>

Call(op, arg) == [op |-> op, arg |-> arg]

Handler(name, arg, calls) ==
  [name |-> name, arg |-> arg, calls |-> calls, waiting |-> <<>>, got |-> <<>>]

\* hydrate up to Promise.all: the three calls are made one after the other
hydrate(u) ==
  [u EXCEPT !.loading = TRUE, !.statusMessage = "",
            !.handlers = Append(@, Handler("hydrate", "",
                                           << Call("getVisibleState", ""), Call("getActions", ""),
                                              Call("listSlots", "") >>))]

\* App is mounted: useState's initial values, and the effect that hydrates
AppMounted ==
  hydrate([ viewMode |-> "game", visibleState |-> <<>>, actions |-> <<>>,
            selectedActionId |-> <<>>, casePages |-> PAGES, activePage |-> "page-a",
            actionResult |-> "", statusMessage |-> "", busy |-> FALSE, loading |-> TRUE,
            handlers |-> <<>>, started |-> 0 ])

\* formatError: the message of what was thrown
formatError(r) == r.message

\* the id of the first action, or null
firstActionId(actions) == IF actions = <<>> THEN <<>> ELSE <<actions[1].id>>

\* handlers with handler n gone: its promise has settled
settle(handlers, n) == removeAt(handlers, n)

\* what was got for op
gotFor(got, op) == got[CHOOSE m \in 1..Len(got) : got[m].op = op]

\* hydrate from Promise.all on: r is a result of one of its three calls
hydrateResumes(u, n, r) ==
  LET got == Append(u.handlers[n].got, r)
  IN  IF ~r.ok
      THEN [u EXCEPT !.statusMessage = formatError(r), !.loading = FALSE,
                     !.handlers = settle(@, n)]
      ELSE IF Len(got) < 3
      THEN [u EXCEPT !.handlers[n].got = got]
      ELSE LET stateResponse == gotFor(got, "getVisibleState").visible_state
               actionsResponse == gotFor(got, "getActions").actions[1]
               slotNames == gotFor(got, "listSlots").names
           IN  [u EXCEPT !.visibleState = stateResponse,
                         !.actions = actionsResponse.actions,
                         !.casePages = IF Len(slotNames) > 0 THEN slotNames ELSE PAGES,
                         !.selectedActionId = firstActionId(actionsResponse.actions),
                         !.loading = FALSE,
                         !.handlers = settle(@, n)]

\* handleApplyAction after each of its two awaits
handleApplyActionResumes(u, n, r) ==
  LET h == u.handlers[n]
  IN  IF ~r.ok
      THEN [u EXCEPT !.statusMessage = formatError(r), !.busy = FALSE,
                     !.handlers = settle(@, n)]
      ELSE IF r.op = "applyAction"
      THEN [u EXCEPT !.handlers[n].got = <<r>>,
                     !.handlers[n].calls = <<Call("getActions", "")>>]
      ELSE LET response == h.got[1]
               refreshedActions == r.actions[1]
           IN  [u EXCEPT !.visibleState = response.visible_state,
                         !.actions = refreshedActions.actions,
                         !.selectedActionId =
                            IF \E m \in 1..Len(refreshedActions.actions) :
                                 refreshedActions.actions[m].id = h.arg
                            THEN <<h.arg>>
                            ELSE firstActionId(refreshedActions.actions),
                         !.actionResult = response.action_result[1].summary,
                         !.busy = FALSE,
                         !.handlers = settle(@, n)]

\* handleSavePage after each of its two awaits
handleSavePageResumes(u, n, r) ==
  IF ~r.ok
  THEN [u EXCEPT !.statusMessage = formatError(r), !.busy = FALSE, !.handlers = settle(@, n)]
  ELSE IF r.op = "saveSlot"
  THEN [u EXCEPT !.handlers[n].calls = <<Call("listSlots", "")>>]
  ELSE [u EXCEPT !.casePages = r.names,
                 !.statusMessage = "Saved current view to " \o u.handlers[n].arg \o ".",
                 !.busy = FALSE,
                 !.handlers = settle(@, n)]

\* handleLoadPage after each of its two awaits
handleLoadPageResumes(u, n, r) ==
  LET h == u.handlers[n]
  IN  IF ~r.ok
      THEN [u EXCEPT !.statusMessage = formatError(r), !.busy = FALSE,
                     !.handlers = settle(@, n)]
      ELSE IF r.op = "loadSlot"
      THEN [u EXCEPT !.handlers[n].got = <<r>>,
                     !.handlers[n].calls = <<Call("getActions", "")>>]
      ELSE [u EXCEPT !.visibleState = h.got[1].visible_state,
                     !.actions = r.actions[1].actions,
                     !.selectedActionId = firstActionId(r.actions[1].actions),
                     !.actionResult = "Loaded " \o h.arg \o ".",
                     !.busy = FALSE,
                     !.handlers = settle(@, n)]

\* handler n goes on with the result r of a call it awaited
resumes(u, n, r) ==
  IF u.handlers[n].name = "hydrate" THEN hydrateResumes(u, n, r)
  ELSE IF u.handlers[n].name = "handleApplyAction" THEN handleApplyActionResumes(u, n, r)
  ELSE IF u.handlers[n].name = "handleSavePage" THEN handleSavePageResumes(u, n, r)
  ELSE handleLoadPageResumes(u, n, r)

\* the handler that is in a synchronous section: 0 when none is
Running ==
  IF \E n \in 1..Len(ui.handlers) : ui.handlers[n].calls # <<>>
  THEN CHOOSE n \in 1..Len(ui.handlers) : ui.handlers[n].calls # <<>>
  ELSE 0

\* nothing runs: the browser takes the next event
Idle == probe = <<LogStart>> /\ Running = 0

\* the running handler makes its next call, op
Makes(op) ==
  /\ probe = <<LogStart>>
  /\ Running # 0
  /\ Head(ui.handlers[Running].calls).op = op

NextArg == Head(ui.handlers[Running].calls).arg

\* ActionBar: the Apply Action button of the selected action is not disabled
ApplyEnabled(u, actionId) ==
  /\ \E m \in 1..Len(u.actions) : u.actions[m].id = actionId /\ u.actions[m].enabled
  /\ ~u.busy

\* Header: the Save and Load buttons are not disabled
PageControlsEnabled(u) == ~u.busy

\* a handler of the user's starts, up to its first call
Starts(u, name, arg, first) ==
  /\ Idle
  /\ ui.viewMode = "game"
  /\ ui.started < MaxHandlers
  /\ ui' = [u EXCEPT !.statusMessage = "", !.started = @ + 1,
                     !.handlers = Append(@, Handler(name, arg, <<first>>))]
  /\ UNCHANGED <<kind, seed, cur, slots, slotKeys, pending, resp, held, aliased, lag, limit,
                 base, wins, savedAt, saveDone, probe>>

\* the user selects an action and presses Apply Action
handleApplyAction(actionId) ==
  /\ ApplyEnabled(ui, actionId)
  /\ Starts([ui EXCEPT !.busy = TRUE, !.selectedActionId = <<actionId>>],
            "handleApplyAction", actionId, Call("applyAction", actionId))

\* \* handleSavePage without its setBusy(true)
handleSavePage_staysIdle ==
  /\ PageControlsEnabled(ui)
  /\ Starts(ui, "handleSavePage", ui.activePage,
            Call("saveSlot", ui.activePage))

\* the user presses Save
handleSavePage ==
  /\ PageControlsEnabled(ui)
  /\ Starts([ui EXCEPT !.busy = TRUE], "handleSavePage", ui.activePage,
            Call("saveSlot", ui.activePage))

\* the user presses Load
handleLoadPage ==
  /\ PageControlsEnabled(ui)
  /\ Starts([ui EXCEPT !.busy = TRUE], "handleLoadPage", ui.activePage,
            Call("loadSlot", ui.activePage))

\* the user presses Scenario Editor, or Back to Game in the editor
setViewMode(mode) ==
  /\ Idle
  /\ ui.viewMode # mode
  /\ ui' = [ui EXCEPT !.viewMode = mode]
  /\ UNCHANGED <<kind, seed, cur, slots, slotKeys, pending, resp, held, aliased, lag, limit,
                 base, wins, savedAt, saveDone, probe>>

\* the editor's onPlay: back to the game, which hydrates again
onPlay ==
  /\ Idle
  /\ ui.viewMode = "editor"
  /\ ui.started < MaxHandlers
  /\ ui' = hydrate([ui EXCEPT !.viewMode = "game", !.started = @ + 1])
  /\ UNCHANGED <<kind, seed, cur, slots, slotKeys, pending, resp, held, aliased, lag, limit,
                 base, wins, savedAt, saveDone, probe>>

\* the handler the last entry of the adapter's record is for: the running
\* one, or one that awaits such a call (0: none does)
Awaits(n) ==
  LET last == probe[Len(probe)]
  IN  IF Running # 0 THEN n = Running
      ELSE IF \E m \in 1..Len(ui.handlers) : \E w \in 1..Len(ui.handlers[m].waiting) :
                ui.handlers[m].waiting[w] = Call(last.call.op, last.call.arg)
           THEN /\ n \in 1..Len(ui.handlers)
                /\ \E w \in 1..Len(ui.handlers[n].waiting) :
                     ui.handlers[n].waiting[w] = Call(last.call.op, last.call.arg)
           ELSE n = 0

\* w without its first element equal to c
without(w, c) == removeAt(w, CHOOSE k \in 1..Len(w) : w[k] = c /\ \A j \in 1..(k - 1) : w[j] # c)

\* App takes the adapter's last entry: a request went out and handler n
\* awaits it, or a call settled and handler n goes on with its result
AppResumes(n) ==
  /\ Len(probe) > 1
  /\ Awaits(n)
  /\ probe' = <<LogStart>>
  /\ LET last == probe[Len(probe)]
     IN  ui' = IF n = 0 THEN ui
               ELSE IF last.ev = "issue"
               THEN [ui EXCEPT !.handlers[n].calls = Tail(@),
                               !.handlers[n].waiting = Append(@, Call(last.call.op, last.call.arg))]
               ELSE IF Running # 0
               THEN resumes([ui EXCEPT !.handlers[n].calls = Tail(@)], n, last.call)
               ELSE resumes([ui EXCEPT !.handlers[n].waiting =
                                        without(@, Call(last.call.op, last.call.arg))],
                            n, last.call)
  /\ UNCHANGED <<kind, seed, cur, slots, slotKeys, pending, resp, held, aliased, lag, limit,
                 base, wins, savedAt, saveDone>>

(***************************************************************************)
(* SpecApp: App on the adapter createEngineAdapter() chose, with the user  *)
(* at its controls and, in live mode, the network answering or failing     *)
(* each request.                                                           *)
(***************************************************************************)
\* the requests App can have in flight
AppInflight == 2 * (MaxHandlers + 1)

\* the bodies the engine answers App with: those among Payloads that are
\* of the endpoint's shape
AppPayloads(op) ==
  {p \in 1..Len(Payloads) :
     IF op = "getVisibleState" THEN Payloads[p] \in {GoodState, OddState}
     ELSE IF op = "getActions" THEN Payloads[p] = GoodActions
     ELSE Payloads[p] \notin {JNull, JStr("ok"), GoodState, OddState, GoodActions}}

\* the failures App meets: the engine is down, or cannot be reached
AppFailures == {f \in 1..Len(Failures) : Failures[f].kind = "network" \/ Failures[f].body # ""}

InitApp ==
  /\ \/ \E sd \in Seeds :
          LET s0 == createInitialMockState(sd)
          IN  /\ kind = NoInstance("mock", "none")
              /\ seed = NoInstance(sd, 0)
              /\ cur = NoInstance(<<s0>>, <<>>)
              /\ limit = NoInstance([turn |-> s0.turn + MaxHandlers + 1, inflight |-> 0,
                                     tick |-> 0], NoLimit)
              /\ base = NoInstance(s0.turn, 0)
     \/ /\ kind = NoInstance("live", "none")
        /\ seed = [i \in Inst |-> 0]
        /\ cur = [i \in Inst |-> <<>>]
        /\ limit = NoInstance([turn |-> 0, inflight |-> AppInflight, tick |-> 0], NoLimit)
        /\ base = [i \in Inst |-> 0]
  /\ wins = [i \in Inst |-> 0]
  /\ slots = [i \in Inst |-> EmptySlots]
  /\ slotKeys = [i \in Inst |-> <<>>]
  /\ pending = [i \in Inst |-> <<>>]
  /\ resp = [i \in Inst |-> NoResp]
  /\ held = <<>>
  /\ aliased = {}
  /\ lag = <<>>
  /\ savedAt = [i \in Inst |-> EmptySlots]
  /\ saveDone = [i \in Inst |-> {}]
  /\ probe = <<LogStart>>
  /\ ui = AppMounted

NextApp ==
  \/ \E a \in ActionIds : handleApplyAction(a)
  \/ handleSavePage
  \/ handleLoadPage
  \/ \E mode \in {"game", "editor"} : setViewMode(mode)
  \/ onPlay
  \/ \E n \in 0..(MaxHandlers + 1) : AppResumes(n)
  \/ Makes("getVisibleState") /\ MockGetVisibleState(1)
  \/ Makes("getActions") /\ MockGetActions(1)
  \/ Makes("applyAction") /\ MockApplyAction(1, NextArg)
  \/ Makes("saveSlot") /\ MockSaveSlot(1, NextArg)
  \/ Makes("loadSlot") /\ MockLoadSlot(1, NextArg)
  \/ Makes("listSlots") /\ MockListSlots(1)
  \/ \E op \in {"getVisibleState", "getActions", "applyAction"} :
       Makes(op) /\ LiveRequest(1, op, NextArg)
  \/ Makes("saveSlot") /\ LiveSaveSlot(1, NextArg)
  \/ Makes("loadSlot") /\ LiveLoadSlot(1, NextArg)
  \/ Makes("listSlots") /\ LiveListSlots(1)
  \/ \E k \in 1..AppInflight, p \in AppPayloads("getVisibleState") : Idle /\ LiveGetVisibleState(1, k, p)
  \/ \E k \in 1..AppInflight, p \in AppPayloads("getActions") : Idle /\ LiveGetActions(1, k, p)
  \/ \E k \in 1..AppInflight, p \in AppPayloads("applyAction") : Idle /\ LiveApplyAction(1, k, p)
  \/ \E k \in 1..AppInflight, f \in AppFailures : Idle /\ LiveFail(1, k, Failures[f])

SpecApp == InitApp /\ [][NextApp]_vars

(***************************************************************************)
(* ScenarioEditor: ui holds the component's state, the scenario requests   *)
(* that have not settled (each with the function that awaits it) and what  *)
(* the scenario endpoints serve.  The user edits nothing: a config is the  *)
(* one that was fetched.                                                   *)
(***************************************************************************)
\* the selection changes of the user in a run
MaxChanges == 2

\* the scenarios the engine has
SCENARIOS == <<"heist", "arson", "fraud">>

ScenarioIds == {SCENARIOS[n] : n \in 1..Len(SCENARIOS)}

\* the ScenarioConfig the engine has for a scenario at first
ConfigOf(scenarioId) == [name |-> "The " \o scenarioId]

Request(op, scenarioId, config) == [op |-> op, scenarioId |-> scenarioId, config |-> config]

\* the requests that have not settled
Outstanding(op) == {k \in 1..Len(ui.requests) : ui.requests[k].op = op}

\* loadScenario up to its await
loadScenario(u, scenarioId) ==
  [u EXCEPT !.loading = TRUE, !.error = "",
            !.requests = Append(@, Request("getScenario", scenarioId, <<>>))]

\* ScenarioEditor is mounted: useState's initial values, and the effect
\* that runs loadScenarioList up to its await
EditorMounted ==
  [ scenarios |-> <<>>, selectedScenario |-> "", config |-> <<>>, loading |-> TRUE,
    saving |-> FALSE, error |-> "", successMessage |-> "",
    requests |-> << Request("listScenarios", "", <<>>) >>,
    served |-> [id \in ScenarioIds |-> ConfigOf(id)],
    changes |-> 0 ]

\* the editor shows its form and not only "Loading..."
FormShown(u) == ~(u.loading /\ u.config = <<>>)

\* what is left unchanged by the editor
EditorOnly ==
  UNCHANGED <<kind, seed, cur, slots, slotKeys, pending, resp, held, aliased, lag, limit,
              base, wins, savedAt, saveDone, probe>>

\* listScenarios settles, with list or by throwing, and loadScenarioList
\* goes on: the first scenario is selected and loaded
loadScenarioList(k, ok, list) ==
  /\ k \in Outstanding("listScenarios")
  /\ LET u == [ui EXCEPT !.requests = removeAt(@, k)]
     IN  ui' = IF ~ok
               THEN [u EXCEPT !.error = "Failed to load scenarios: Error: Failed to list scenarios: Internal Server Error",
                              !.loading = FALSE]
               ELSE IF Len(list) > 0
               THEN loadScenario([u EXCEPT !.scenarios = list, !.selectedScenario = list[1]],
                                 list[1])
               ELSE [u EXCEPT !.scenarios = list, !.loading = FALSE]
  /\ EditorOnly

\* the user picks another scenario in the selector
handleScenarioChange(scenarioId) ==
  /\ FormShown(ui)
  /\ \E n \in 1..Len(ui.scenarios) : ui.scenarios[n] = scenarioId
  /\ scenarioId # ui.selectedScenario
  /\ ui.changes < MaxChanges
  /\ ui' = loadScenario([ui EXCEPT !.selectedScenario = scenarioId, !.changes = @ + 1],
                        scenarioId)
  /\ EditorOnly

\* getScenario settles, with the config served or by throwing, and
\* loadScenario goes on
getScenario(k, ok) ==
  /\ k \in Outstanding("getScenario")
  /\ LET u == [ui EXCEPT !.requests = removeAt(@, k)]
     IN  ui' = IF ok
               THEN [u EXCEPT !.config = <<ui.served[ui.requests[k].scenarioId]>>,
                              !.loading = FALSE]
               ELSE [u EXCEPT !.error = "Failed to load scenario: Error: Failed to get scenario: Not Found",
                              !.loading = FALSE]
  /\ EditorOnly

\* the user presses Save Scenario
handleSave ==
  /\ FormShown(ui)
  /\ ~ui.saving
  /\ ui.config # <<>>
  /\ ui.selectedScenario # ""
  /\ ui' = [ui EXCEPT !.saving = TRUE, !.error = "", !.successMessage = "",
                      !.requests = Append(@, Request("saveScenario", ui.selectedScenario,
                                                     ui.config))]
  /\ EditorOnly

\* saveScenario settles, the config stored or not, and handleSave goes on
saveScenario(k, ok) ==
  /\ k \in Outstanding("saveScenario")
  /\ LET r == ui.requests[k]
         u == [ui EXCEPT !.requests = removeAt(@, k), !.saving = FALSE]
     IN  ui' = IF ok
               THEN [u EXCEPT !.served[r.scenarioId] = r.config[1],
                              !.successMessage = "Scenario saved successfully!"]
               ELSE [u EXCEPT !.error = "Failed to save scenario: Error: Failed to save scenario: Internal Server Error"]
  /\ EditorOnly

\* three seconds after a save the message goes
successTimeout ==
  /\ ui.successMessage # ""
  /\ ui' = [ui EXCEPT !.successMessage = ""]
  /\ EditorOnly

(***************************************************************************)
(* SpecEditor: the editor from its mount on, with the user at the selector *)
(* and the Save button and the requests settling in any order.             *)
(***************************************************************************)
InitEditor ==
  /\ NoAdapters
  /\ probe = <<>>
  /\ ui = EditorMounted

NextEditor ==
  \/ \E k \in 1..(MaxChanges + 2), ok \in BOOLEAN, list \in {<<>>, SCENARIOS} :
       loadScenarioList(k, ok, list)
  \/ \E id \in ScenarioIds : handleScenarioChange(id)
  \/ \E k \in 1..(MaxChanges + 2), ok \in BOOLEAN : getScenario(k, ok)
  \/ handleSave
  \/ \E k \in 1..(MaxChanges + 2), ok \in BOOLEAN : saveScenario(k, ok)
  \/ successTimeout

SpecEditor == InitEditor /\ [][NextEditor]_vars

(***************************************************************************)
(* Properties of the mock engine                                           *)
(***************************************************************************)
\* the last call on instance i was applyAction and it resolved
Applied(i) == resp[i].op = "applyAction" /\ resp[i].ok /\ resp[i].action_result # <<>>

GuardFails(state, actionId) ==
  \/ /\ actionId = "remove_evidence"
     /\ \A n \in 1..Len(state.evidence) : state.evidence[n].state # "surfaced"
  \/ /\ actionId = "delay_briefing"
     /\ state.pressure.public = "critical"
  \/ /\ actionId = "seal_archive"
     /\ \A n \in 1..Len(state.evidence) : state.evidence[n].state # "suppressed"

\* C2: applyAction with remove_evidence when nothing is surfaced, with
\* delay_briefing under critical public pressure, or with seal_archive when
\* nothing is suppressed returns success=false and a visible_state equal in
\* every field to the state before the call, and the stored state is unchanged
GuardFailureKeepsState ==
  [][\A a \in CATALOGUE :
       (MockApplyAction(1, a) /\ GuardFails(cur[1][1], a))
         => /\ resp'[1].ok
            /\ resp'[1].action_result[1].success = FALSE
            /\ resp'[1].visible_state = cur[1]
            /\ cur' = cur]_vars

\* delay_briefing was refused under critical public pressure after the
\* engine had moved on from the state it was created in
GuardFailureWitness ==
  /\ Applied(1) /\ resp[1].arg = "delay_briefing"
  /\ ~resp[1].action_result[1].success
  /\ cur[1][1].pressure.public = "critical"
  /\ wins[1] >= 2

\* C3: applyAction with an id outside the catalogue resolves with
\* success=false, the summary "Action not recognized by mock adapter." and a
\* visible_state equal to the state before the call; the state is unchanged
UnknownActionReported ==
  [][\A a \in ActionIds \ CATALOGUE :
       MockApplyAction(1, a)
         => /\ resp'[1].ok
            /\ resp'[1].action_result =
                 <<[success |-> FALSE, summary |-> "Action not recognized by mock adapter."]>>
            /\ resp'[1].visible_state = cur[1]
            /\ cur' = cur]_vars

\* an id that differs from a catalogue id only in case was answered, after
\* a successful action
UnknownActionWitness ==
  /\ Applied(1) /\ resp[1].arg = "REMOVE_EVIDENCE"
  /\ ~resp[1].action_result[1].success
  /\ wins[1] >= 1
  /\ \E n \in 1..Len(cur[1][1].evidence) : cur[1][1].evidence[n].state = "surfaced"

\* C4: a successful applyAction increases turn by exactly 1, a failed one
\* leaves it unchanged; with no loadSlot in between, turn never decreases
\* and is the initial turn plus the number of successful actions
TurnCountsSuccesses ==
  /\ [](cur[1][1].turn = base[1] + wins[1])
  /\ [][\A a \in ActionIds :
          MockApplyAction(1, a)
            => /\ cur'[1][1].turn >= cur[1][1].turn
               /\ resp'[1].visible_state[1].turn = cur'[1][1].turn
               /\ cur'[1][1].turn =
                    cur[1][1].turn + (IF resp'[1].action_result[1].success THEN 1 ELSE 0)]_vars

\* a failed action after three successful ones
TurnCountsWitness ==
  /\ Applied(1) /\ ~resp[1].action_result[1].success
  /\ wins[1] >= 3
  /\ cur[1][1].turn = limit[1].turn

\* C5: every successful action appends exactly one entry as the last timeline
\* element, stamped from the turn after the increment; the timeline never
\* holds more than 12 entries; applied to 12 entries, the result is the
\* former entries 2..12 in order followed by the new one
TimelineGrowthAndCap ==
  /\ [](Len(cur[1][1].timeline) <= 12)
  /\ [][\A a \in ActionIds :
          (MockApplyAction(1, a) /\ resp'[1].action_result[1].success)
            => LET old == cur[1][1].timeline
                   new == cur'[1][1].timeline
               IN  /\ new # <<>>
                   /\ new[Len(new)].time = utcIsoString(20 + cur'[1][1].turn)
                   /\ new[Len(new)].time # utcIsoString(20 + cur[1][1].turn)
                   /\ SubSeq(new, 1, Len(new) - 1) =
                        (IF Len(old) >= 12 THEN SubSeq(old, Len(old) - 10, Len(old)) ELSE old)
                   /\ resp'[1].visible_state[1].timeline = new]_vars

\* twelve entries, the first of them no longer the incident: the oldest
\* entries have been dropped
TimelineCapWitness ==
  /\ Applied(1) /\ resp[1].action_result[1].success
  /\ Len(cur[1][1].timeline) = 12
  /\ cur[1][1].timeline[1].label # "incident"

(***************************************************************************)
(* Properties of the snapshot store                                        *)
(***************************************************************************)
\* the last call on instance i was a loadSlot that resolved
Loaded(i) == resp[i].op = "loadSlot" /\ resp[i].ok

\* C6: in the mock adapter, after saveSlot(s), whatever actions, saves and
\* loads followed, loadSlot(s) returns a value equal to the state at the
\* most recent saveSlot(s)
SnapshotRoundTrip ==
  [][\A s \in SlotNames :
       (MockLoadSlot(1, s) /\ s \in saveDone[1])
         => /\ resp'[1].ok
            /\ resp'[1].visible_state = savedAt[1][s]
            /\ savedAt[1][s] # <<>>]_vars

\* page-a was loaded after the engine had moved on and page-z had been
\* saved with another state
SnapshotRoundTripWitness ==
  /\ kind[1] = "mock"
  /\ Loaded(1) /\ resp[1].arg = "page-a"
  /\ wins[1] = 0 /\ base[1] < limit[1].turn
  /\ savedAt[1]["page-z"] # <<>>
  /\ savedAt[1]["page-z"] # resp[1].visible_state

\* C7: in both adapters, writing to a value returned by getVisibleState,
\* applyAction or loadSlot changes neither the working state nor a stored
\* snapshot, and applying an action leaves every stored snapshot as it was
NoAliasing ==
  [][/\ ClientMutate => (cur' = cur /\ slots' = slots)
     /\ \A a \in ActionIds : MockApplyAction(1, a) => slots' = slots
     /\ \A k \in 1..Len(pending[1]), p \in 1..Len(Payloads) :
          LiveApplyAction(1, k, p) => slots' = slots]_vars

\* the caller has written to the value loadSlot handed out while the
\* snapshot it came from is stored
NoAliasingWitness ==
  /\ Loaded(1)
  /\ held # <<>> /\ held[1].status = "tampered"
  /\ slots[1][resp[1].arg] = cur[1]
  /\ slots[1][resp[1].arg] # <<>>

\* C8: in both adapters, loadSlot(s) with nothing stored under s rejects
\* with an EngineAdapterError and leaves the working (retained) state and
\* the whole slot mapping unchanged
UnknownSlotRejected ==
  [][\A s \in SlotNames :
       ((MockLoadSlot(1, s) \/ LiveLoadSlot(1, s)) /\ slots[1][s] = <<>>)
         => /\ ~resp'[1].ok
            /\ resp'[1].error = "EngineAdapterError"
            /\ resp'[1].message = unknownSlotMessage(s)
            /\ cur' = cur
            /\ slots' = slots
            /\ slotKeys' = slotKeys]_vars

\* a live adapter that retains a state and stores a snapshot has rejected
\* the load of the other slot
UnknownSlotWitness ==
  /\ kind[1] = "live"
  /\ resp[1].op = "loadSlot" /\ ~resp[1].ok
  /\ cur[1] # <<>>
  /\ \E s \in SlotNames : slots[1][s] # <<>>

\* C9: in a live adapter, also before any getVisibleState or applyAction
\* has resolved, once saveSlot(s) has resolved a snapshot is stored under
\* s, so that loadSlot(s) does not report the unknown-slot error
LiveSaveCaptures ==
  kind[1] = "live" => \A s \in saveDone[1] : slots[1][s] # <<>>

\* C10 as stated: in both adapters, after loadSlot(s) resolved, the next
\* getVisibleState returns a value equal to the loaded snapshot, and a
\* following saveSlot(t) stores that snapshot under t
LoadThenReadReturnsSnapshot ==
  [][/\ (MockGetVisibleState(1) /\ Loaded(1))
          => resp'[1].visible_state = resp[1].visible_state
     /\ \A k \in 1..Len(pending[1]), p \in 1..Len(Payloads) :
          (LiveGetVisibleState(1, k, p) /\ Loaded(1) /\ pending[1][k].fresh)
            => resp'[1].visible_state = resp[1].visible_state
     /\ \A t \in SlotNames :
          ((MockSaveSlot(1, t) \/ LiveSaveSlot(1, t)) /\ Loaded(1))
            => slots'[1][t] = resp[1].visible_state]_vars

\* C10, amended: in both adapters, loadSlot(s) that resolves returns the
\* stored snapshot and makes it the working (retained) state, so that a
\* saveSlot(t) that follows stores that snapshot under t; in the mock
\* adapter the next getVisibleState returns a value equal to it
LoadReplacesWorkingState ==
  [][/\ \A s \in SlotNames :
          ((MockLoadSlot(1, s) \/ LiveLoadSlot(1, s)) /\ slots[1][s] # <<>>)
            => /\ resp'[1].ok
               /\ resp'[1].visible_state = slots[1][s]
               /\ cur'[1] = slots[1][s]
     /\ (MockGetVisibleState(1) /\ Loaded(1))
          => resp'[1].visible_state = resp[1].visible_state
     /\ \A t \in SlotNames :
          ((MockSaveSlot(1, t) \/ LiveSaveSlot(1, t)) /\ Loaded(1))
            => slots'[1][t] = resp[1].visible_state]_vars

\* a live adapter has loaded one snapshot while it stores a different one
\* under the other name
LoadReplacesWitness ==
  /\ kind[1] = "live"
  /\ Loaded(1)
  /\ cur[1] = resp[1].visible_state
  /\ \E s \in SlotNames : slots[1][s] # <<>> /\ slots[1][s] # cur[1]

\* C11: in both adapters listSlots returns page-a, page-b, page-c and every
\* other name a snapshot is stored under, each once; after saveSlot('page-x')
\* stored a state, 'page-x' is among them
ListSlotsMerges ==
  resp[1].op = "listSlots"
    => LET names == resp[1].names
       IN  /\ \A d \in 1..Len(DEFAULT_SLOTS) : \E n \in 1..Len(names) : names[n] = DEFAULT_SLOTS[d]
           /\ \A s \in SlotNames : slots[1][s] # <<>> => \E n \in 1..Len(names) : names[n] = s
           /\ \A m, n \in 1..Len(names) : names[m] = names[n] => m = n

(***************************************************************************)
(* Properties of the mock actions                                          *)
(***************************************************************************)
HasEvidence(state, st) == \E n \in 1..Len(state.evidence) : state.evidence[n].state = st

\* C12: in the mock adapter, after any applyAction, saveSlot and loadSlot
\* calls, getActions returns remove_evidence, delay_briefing, reframe_priority
\* and seal_archive in that order, enabled when, in the state at the time of
\* the call, some evidence is surfaced, public pressure is not critical,
\* always, and some evidence is suppressed
ActionsDerivedFromState ==
  (kind[1] = "mock" /\ resp[1].op = "getActions")
    => LET acts == resp[1].actions[1].actions
           state == cur[1][1]
       IN  /\ [n \in 1..Len(acts) |-> acts[n].id] =
                <<"remove_evidence", "delay_briefing", "reframe_priority", "seal_archive">>
           /\ acts[1].enabled = HasEvidence(state, "surfaced")
           /\ acts[2].enabled = (state.pressure.public # "critical")
           /\ acts[3].enabled = TRUE
           /\ acts[4].enabled = HasEvidence(state, "suppressed")

\* getActions answered right after a loadSlot brought back a state under
\* critical public pressure with nothing surfaced
ActionsDerivedWitness ==
  /\ resp[1].op = "getActions"
  /\ wins[1] = 0
  /\ cur[1][1].pressure.public = "critical"
  /\ ~resp[1].actions[1].actions[1].enabled
  /\ ~resp[1].actions[1].actions[2].enabled
  /\ resp[1].actions[1].actions[4].enabled

\* one step up and one step down the scale low < moderate < elevated < high
\* < critical, staying at the ends
ScaleUp(label) ==
  CASE label = "low" -> "moderate"
    [] label = "moderate" -> "elevated"
    [] label = "elevated" -> "high"
    [] label \in {"high", "critical"} -> "critical"
    [] OTHER -> "uncertain"

ScaleDown(label) ==
  CASE label \in {"low", "moderate"} -> "low"
    [] label = "elevated" -> "moderate"
    [] label = "high" -> "elevated"
    [] label = "critical" -> "high"
    [] OTHER -> "uncertain"

\* the lowest index of an evidence item in state st
FirstWith(state, st) ==
  CHOOSE n \in 1..Len(state.evidence) :
    /\ state.evidence[n].state = st
    /\ \A m \in 1..(n - 1) : state.evidence[m].state # st

\* the last call was applyAction(actionId) and it succeeded
Succeeded(actionId) ==
  Applied(1) /\ resp[1].arg = actionId /\ resp[1].action_result[1].success

\* C13: remove_evidence on a state with a surfaced item succeeds, turns the
\* first surfaced item to 'suppressed' with its summary replaced, moves public
\* pressure one step up the scale (staying at 'critical') and leaves every
\* other evidence item unchanged in place
RemoveEvidenceEffect ==
  [][(MockApplyAction(1, "remove_evidence") /\ HasEvidence(cur[1][1], "surfaced"))
       => LET old == cur[1][1]
              new == cur'[1][1]
              n == FirstWith(old, "surfaced")
          IN  /\ resp'[1].action_result[1].success
              /\ resp'[1].visible_state = cur'[1]
              /\ Len(new.evidence) = Len(old.evidence)
              /\ new.evidence[n] =
                   [old.evidence[n] EXCEPT !.state = "suppressed",
                      !.summary = "Access restricted pending compliance review."]
              /\ new.evidence[n].summary # old.evidence[n].summary
              /\ \A m \in 1..Len(old.evidence) : m # n => new.evidence[m] = old.evidence[m]
              /\ new.pressure.public = ScaleUp(old.pressure.public)]_vars

\* the second surfaced item was removed after the first, which brought
\* public pressure to 'critical'
RemoveEvidenceWitness ==
  /\ Succeeded("remove_evidence")
  /\ cur[1][1].evidence[1].state = "suppressed"
  /\ cur[1][1].evidence[2].state = "suppressed"
  /\ cur[1][1].pressure.public = "critical"

\* C14: seal_archive on a state with a suppressed item succeeds, turns the
\* first suppressed item to 'archived' with its summary replaced, moves
\* institutional pressure one step down the scale (staying at 'low') and
\* leaves every other evidence item unchanged
SealArchiveEffect ==
  [][(MockApplyAction(1, "seal_archive") /\ HasEvidence(cur[1][1], "suppressed"))
       => LET old == cur[1][1]
              new == cur'[1][1]
              n == FirstWith(old, "suppressed")
          IN  /\ resp'[1].action_result[1].success
              /\ resp'[1].visible_state = cur'[1]
              /\ Len(new.evidence) = Len(old.evidence)
              /\ new.evidence[n] =
                   [old.evidence[n] EXCEPT !.state = "archived",
                      !.summary = "Record sealed in archive."]
              /\ new.evidence[n].summary # old.evidence[n].summary
              /\ \A m \in 1..Len(old.evidence) : m # n => new.evidence[m] = old.evidence[m]
              /\ new.pressure.institutional = ScaleDown(old.pressure.institutional)]_vars

\* an item was sealed two actions after creation with institutional pressure
\* 'low' throughout: it stayed at 'low'
SealArchiveWitness ==
  /\ Succeeded("seal_archive")
  /\ wins[1] = 2
  /\ createInitialMockState(seed[1]).pressure.institutional = "low"
  /\ cur[1][1].pressure.institutional = "low"
  /\ HasEvidence(cur[1][1], "archived")

\* C15: delay_briefing succeeds exactly when public pressure is not
\* 'critical'; on success public pressure moves one step down and
\* institutional pressure one step up the scale, each staying at the ends,
\* and the evidence list is unchanged
DelayBriefingEffect ==
  [][MockApplyAction(1, "delay_briefing")
       => LET old == cur[1][1]
              new == cur'[1][1]
          IN  /\ resp'[1].action_result[1].success = (old.pressure.public # "critical")
              /\ resp'[1].visible_state = cur'[1]
              /\ resp'[1].action_result[1].success
                   => /\ new.pressure.public = ScaleDown(old.pressure.public)
                      /\ new.pressure.institutional = ScaleUp(old.pressure.institutional)
                      /\ new.pressure.personal = old.pressure.personal
                      /\ new.evidence = old.evidence]_vars

\* the third delay in a row from 'elevated' public pressure: it was already
\* 'low' and stayed there
DelayBriefingWitness ==
  /\ Succeeded("delay_briefing")
  /\ wins[1] = 3
  /\ createInitialMockState(seed[1]).pressure.public = "elevated"
  /\ cur[1][1].pressure.public = "low"
  /\ cur[1][1].pressure.institutional =
       ScaleUp(ScaleUp(ScaleUp(createInitialMockState(seed[1]).pressure.institutional)))

\* the rotation forensics -> interviews -> financial -> surveillance -> forensics
NextPriority(priority) ==
  CASE priority = "forensics" -> "interviews"
    [] priority = "interviews" -> "financial"
    [] priority = "financial" -> "surveillance"
    [] priority = "surveillance" -> "forensics"

\* C16: reframe_priority succeeds in every reachable mock state, sets the
\* priority to its successor in the rotation and recent_shift to
\* 'attention_realignment', leaves pressure and evidence unchanged, and four
\* of them in a row return the priority to its starting value
ReframeRotates ==
  /\ [](LET reframe(state) == applyMockAction(state, "reframe_priority")
            s1 == reframe(cur[1][1]).visible_state
            s2 == reframe(s1).visible_state
            s3 == reframe(s2).visible_state
            s4 == reframe(s3).visible_state
        IN  /\ reframe(cur[1][1]).action_result.success
            /\ s1.investigator_signals.priority # cur[1][1].investigator_signals.priority
            /\ s2.investigator_signals.priority # cur[1][1].investigator_signals.priority
            /\ s3.investigator_signals.priority # cur[1][1].investigator_signals.priority
            /\ s4.investigator_signals.priority = cur[1][1].investigator_signals.priority)
  /\ [][MockApplyAction(1, "reframe_priority")
          => LET old == cur[1][1]
                 new == cur'[1][1]
             IN  /\ resp'[1].action_result[1].success
                 /\ resp'[1].visible_state = cur'[1]
                 /\ new.investigator_signals.priority =
                      NextPriority(old.investigator_signals.priority)
                 /\ new.investigator_signals.recent_shift = "attention_realignment"
                 /\ new.investigator_signals.demeanour = old.investigator_signals.demeanour
                 /\ new.pressure = old.pressure
                 /\ new.evidence = old.evidence]_vars

\* the last five actions were all reframe_priority, and the first of them
\* set the priority that the last one has set again
ReframeWitness ==
  /\ Succeeded("reframe_priority")
  /\ LET timeline == cur[1][1].timeline
     IN  /\ Len(timeline) >= 5
         /\ \A n \in (Len(timeline) - 4)..Len(timeline) : timeline[n].label = "priority_reframed"
         /\ timeline[Len(timeline) - 4].details =
              "Investigator priority shifted to "
                \o cur[1][1].investigator_signals.priority \o "."

\* C17: shiftPressure returns the neighbouring label of the scale low <
\* moderate < elevated < high < critical for delta -1 and +1, except that
\* 'critical' shifted up stays 'critical' and 'low' shifted down stays 'low',
\* also when repeated; for every label outside the scale it returns
\* 'uncertain' for either delta
ShiftPressureRule ==
  probe # <<>> /\ probe.calls > 0
    => /\ probe.delta \in {-1, 1}
       /\ probe.current \in {"low", "moderate", "elevated", "high", "critical"}
            => probe.returned = (IF probe.delta = 1 THEN ScaleUp(probe.current)
                                 ELSE ScaleDown(probe.current))
       /\ probe.current \in {"uncertain", "probable", "contradictory", "stable", "fragile"}
            => probe.returned = "uncertain"
       /\ (probe.current = "critical" /\ probe.delta = 1) => probe.returned = "critical"
       /\ (probe.current = "low" /\ probe.delta = -1) => probe.returned = "low"

\* 'critical', reached by shifting up, shifted up once more
ShiftPressureWitness ==
  /\ probe # <<>>
  /\ probe.calls >= 3
  /\ probe.delta = 1
  /\ probe.current = "critical"
  /\ probe.returned = "critical"

\* C18: a live getVisibleState, getActions or applyAction that fails by
\* timeout, by a non-2xx status or by a network failure rejects with an
\* EngineAdapterError and leaves the adapter's retained current state and
\* slot mapping exactly as they were
FailedRequestKeepsState ==
  [][\A k \in 1..MaxInflight, f \in 1..Len(Failures) :
       (Failures[f].kind \in {"abort", "status", "network"} /\ LiveFail(1, k, Failures[f]))
         => /\ pending[1][k].op \in {"getVisibleState", "getActions", "applyAction"}
            /\ resp'[1].op = pending[1][k].op
            /\ ~resp'[1].ok
            /\ resp'[1].error = "EngineAdapterError"
            /\ cur'[1] = cur[1]
            /\ slots'[1] = slots[1]
            /\ slotKeys'[1] = slotKeys[1]]_vars

\* a live request has timed out while the adapter retained a state and stored
\* a snapshot of it
FailedRequestWitness ==
  /\ kind[1] = "live"
  /\ ~resp[1].ok
  /\ resp[1].op \in {"getVisibleState", "getActions", "applyAction"}
  /\ resp[1].message = "Engine request timed out. Please retry."
  /\ cur[1] # <<>>
  /\ slotKeys[1] # <<>>
  /\ slots[1][slotKeys[1][1]] = cur[1]

\* C19: for every JSON value returned as a 2xx body, live getVisibleState,
\* getActions and applyAction resolve; and every rejection a live operation
\* produces is an EngineAdapterError
MalformedPayloadsResolve ==
  /\ []((kind[1] = "live" /\ ~resp[1].ok) => resp[1].error = "EngineAdapterError")
  /\ [][\A k \in 1..MaxInflight, p \in 1..Len(Payloads) :
          (\/ LiveGetVisibleState(1, k, p)
           \/ LiveGetActions(1, k, p)
           \/ LiveApplyAction(1, k, p)) => resp'[1].ok]_vars

TimeoutMessage == "Engine request timed out. Please retry."

\* C20: no live request is in flight longer than REQUEST_TIMEOUT_MS; the
\* operation of a request still in flight when its timer fires rejects with
\* the timeout error, and no other request does; the timeout error differs
\* from the errors of a non-2xx status and of a network failure; a failed
\* request is not issued again
TimerBoundsRequests ==
  /\ [](/\ \A k \in 1..Len(pending[1]) : pending[1][k].elapsed <= REQUEST_TIMEOUT_MS
        /\ \A f \in 1..Len(Failures) :
             (fetchJsonError(Failures[f]) = TimeoutMessage) <=> (Failures[f].kind = "abort"))
  /\ [][\A k \in 1..MaxInflight :
          (\/ \E f \in 1..Len(Failures) : LiveFail(1, k, Failures[f])
           \/ \E p \in 1..Len(Payloads) : \/ LiveGetVisibleState(1, k, p)
                                          \/ LiveGetActions(1, k, p)
                                          \/ LiveApplyAction(1, k, p))
            => /\ (pending[1][k].elapsed >= REQUEST_TIMEOUT_MS)
                     <=> (~resp'[1].ok /\ resp'[1].message = TimeoutMessage)
               /\ resp'[1].message = TimeoutMessage => resp'[1].error = "EngineAdapterError"
               /\ Len(pending'[1]) = Len(pending[1]) - 1
               /\ \A n \in 1..Len(pending'[1]) :
                    \E m \in 1..Len(pending[1]) :
                      /\ m # k
                      /\ pending'[1][n].op = pending[1][m].op
                      /\ pending'[1][n].arg = pending[1][m].arg
                      /\ pending'[1][n].elapsed = pending[1][m].elapsed]_vars

\* an applyAction request ran into its timer and was rejected with the
\* timeout error; nothing is in flight after it
TimerWitness ==
  /\ kind[1] = "live"
  /\ limit[1].tick > 0
  /\ ~resp[1].ok
  /\ resp[1].op = "applyAction"
  /\ resp[1].error = "EngineAdapterError"
  /\ resp[1].message = TimeoutMessage
  /\ pending[1] = <<>>

(***************************************************************************)
(* Properties of the sanitizer                                             *)
(***************************************************************************)
\* sanitizer fn was applied to the input
Ran(fn) == probe.fn = fn /\ probe.done

\* the value is a string that spells one of the terms, letter case and
\* surrounding white space aside
Spells(v, terms) == v.t = "string" /\ toLowerCase(trim(v.s)) \in terms

\* C21: the VisibleState sanitizeVisibleState produces has status in
\* {active, contained, paused, cold, closed}, each pressure field in the
\* ten-term qualitative vocabulary, every evidence state in {surfaced,
\* logged, review, suppressed, archived} and turn a non-negative integer; an
\* unrecognized value becomes 'active', 'uncertain', 'logged' and 0
ClosedVocabularies ==
  Ran("sanitizeVisibleState")
    => LET in == probe.input
           out == probe.out[1]
           Status == {"active", "contained", "paused", "cold", "closed"}
           Qualitative == {"low", "moderate", "elevated", "high", "critical", "uncertain",
                           "probable", "contradictory", "stable", "fragile"}
           States == {"surfaced", "logged", "review", "suppressed", "archived"}
           pressure == OrEmptyObject(Get(in, "pressure"))
           evidence == arrayOrEmpty(Get(in, "evidence"))
           turn == Get(in, "turn")
       IN  /\ out.status \in Status
           /\ ~Spells(Get(in, "status"), Status) => out.status = "active"
           /\ \A f \in {"public", "institutional", "personal"} :
                /\ out.pressure[f] \in Qualitative
                /\ ~Spells(Get(pressure, f), Qualitative) => out.pressure[f] = "uncertain"
           /\ Len(out.evidence) = Len(evidence)
           /\ \A k \in 1..Len(out.evidence) :
                /\ out.evidence[k].state \in States
                /\ ~Spells(Get(evidence[k], "state"), States) => out.evidence[k].state = "logged"
           /\ out.turn \in Nat
           /\ (\/ turn.t \in {"undefined", "object"}
               \/ turn.t = "number" /\ (turn.k # "finite" \/ (turn.neg /\ turn.int > 0))
               \/ turn.t = "string" /\ ~\E k \in 1..Len(turn.s) : isDigit(charAt(turn.s, k)))
                => out.turn = 0

\* a body whose status, public pressure and evidence state are all outside
\* their vocabularies and whose turn is negative
ClosedVocabulariesWitness ==
  /\ Ran("sanitizeVisibleState")
  /\ Get(probe.input, "status") = JStr("rng_state")
  /\ Get(Get(probe.input, "pressure"), "institutional") = JInt(3)
  /\ probe.out[1].status = "active"
  /\ probe.out[1].pressure.public = "critical"
  /\ probe.out[1].pressure.institutional = "uncertain"
  /\ probe.out[1].evidence[1].state = "logged"
  /\ probe.out[1].evidence[2].state = "suppressed"
  /\ probe.out[1].turn = 7

\* C22: the VisibleState sanitizeVisibleState produces holds at most 12
\* timeline entries, for every input
SanitizedTimelineCapped ==
  Ran("sanitizeVisibleState") => Len(probe.out[1].timeline) <= TIMELINE_KEEP

\* the value is a string that contains, as a whole word in any letter case,
\* one of the restricted words, or a numeric percentage
Restricted(v) == v.t = "string" /\ restrictedText(v.s)

\* the redaction of the texts of a VisibleState and of an ActionResult, and
\* of an action's desc
RedactsTexts ==
  /\ Ran("sanitizeVisibleState")
       => LET evidence == arrayOrEmpty(Get(probe.input, "evidence"))
              timeline == arrayOrEmpty(Get(probe.input, "timeline"))
          IN  /\ \A k \in 1..Len(evidence) :
                   Restricted(Get(evidence[k], "summary"))
                     => probe.out[1].evidence[k].summary = "Restricted in visible state."
              /\ \A k \in 1..Len(timeline) :
                   Restricted(Get(timeline[k], "details"))
                     => probe.out[1].timeline[k].details = "Restricted in visible state."
  /\ (Ran("sanitizeAction") /\ Restricted(Get(probe.input, "desc")))
       => probe.out[1].desc = "Restricted in visible state."
  /\ (Ran("sanitizeActionResult") /\ Restricted(Get(probe.input, "summary")))
       => probe.out[1].summary = "Restricted in visible state."

\* C23: whenever an evidence summary, a timeline details text, an action
\* desc, an action disabled_reason or an action-result summary of the
\* payload contains a restricted word or a numeric percentage, the
\* corresponding output field is exactly 'Restricted in visible state.'
RedactsEveryField ==
  /\ RedactsTexts
  /\ (Ran("sanitizeAction") /\ Restricted(Get(probe.input, "disabled_reason")))
       => probe.out[1].disabled_reason = <<"Restricted in visible state.">>

\* C23, amended: as above, but the disabled_reason of an action is redacted
\* when the action is not enabled; the output of an enabled action has no
\* disabled_reason at all, whatever the payload carried
RedactsKeptFields ==
  /\ RedactsTexts
  /\ (Ran("sanitizeAction") /\ Restricted(Get(probe.input, "disabled_reason")))
       => probe.out[1].disabled_reason =
            (IF probe.out[1].enabled THEN <<>> ELSE <<"Restricted in visible state.">>)

\* a disabled action whose reason names a restricted word after 120
\* characters of other text: the reason was replaced, the desc was kept
RedactsWitness ==
  /\ Ran("sanitizeAction")
  /\ Get(probe.input, "disabled_reason") = JStr(repeat("word ", 24) \o "rng")
  /\ ~probe.out[1].enabled
  /\ probe.out[1].disabled_reason = <<"Restricted in visible state.">>
  /\ probe.out[1].desc # "Restricted in visible state."

\* the text carries no restricted word and no numeric percentage
Clean(s) == ~restrictedText(s)

\* C24: no string field of a VisibleState, an ActionOption or an
\* ActionResult that comes out of the sanitizer contains a restricted word
\* or a numeric percentage: case_id, the descriptors, evidence id, label,
\* category, state and summary, timeline time, label and details, action id,
\* label, cost, desc and disabled_reason, and the result's summary
NoRestrictedOutput ==
  /\ Ran("sanitizeVisibleState")
       => LET out == probe.out[1]
          IN  /\ Clean(out.case_id) /\ Clean(out.crime_type) /\ Clean(out.status)
              /\ \A f \in {"priority", "demeanour", "recent_shift"} :
                   Clean(out.investigator_signals[f])
              /\ \A f \in {"public", "institutional", "personal"} : Clean(out.pressure[f])
              /\ \A k \in 1..Len(out.evidence) :
                   \A f \in {"id", "label", "category", "state", "summary"} :
                     out.evidence[k][f] = "Restricted in visible state." \/ Clean(out.evidence[k][f])
              /\ \A k \in 1..Len(out.timeline) :
                   \A f \in {"time", "label", "details"} :
                     out.timeline[k][f] = "Restricted in visible state." \/ Clean(out.timeline[k][f])
  /\ Ran("sanitizeAction")
       => LET out == probe.out[1]
          IN  /\ \A f \in {"id", "label", "desc"} :
                   out[f] = "Restricted in visible state." \/ Clean(out[f])
              /\ \A f \in {"cost", "disabled_reason"} :
                   out[f] \in {<<>>, <<"Restricted in visible state.">>} \/ Clean(out[f][1])
  /\ Ran("sanitizeActionResult")
       => (probe.out[1].summary = "Restricted in visible state." \/ Clean(probe.out[1].summary))

\* C25: for every string value and every fallback, if the value contains a
\* digit anywhere, or one of seed, rng, debug, belief, hypothesis in any
\* letter case anywhere, sanitizeDescriptor returns the fallback
DescriptorFallback ==
  (/\ Ran("sanitizeDescriptor")
   /\ probe.input.t = "string"
   /\ \/ \E k \in 1..Len(probe.input.s) : charAt(probe.input.s, k) \in
           {"0", "1", "2", "3", "4", "5", "6", "7", "8", "9"}
      \/ \E w \in {"seed", "rng", "debug", "belief", "hypothesis"} :
           \E k \in 1..Len(probe.input.s) :
             /\ k + Len(w) - 1 <= Len(probe.input.s)
             /\ toLowerCase(SubSeq(probe.input.s, k, k + Len(w) - 1)) = w)
    => probe.out[1] = probe.fallback

\* disabled_reason is a non-empty string if the action is not enabled and
\* absent if it is
ReasonIffDisabled(action) ==
  IF action.enabled THEN action.disabled_reason = <<>>
  ELSE action.disabled_reason # <<>> /\ action.disabled_reason[1] # ""

\* C26: in every ActionOption the mock getActions builds, in every
\* reachable state, and in every ActionOption sanitizeAction produces,
\* disabled_reason is a non-empty string if enabled is false and absent if
\* enabled is true
DisabledReasonIffDisabled ==
  /\ Ran("buildMockActions")
       => \A k \in 1..Len(probe.out[1].actions) : ReasonIffDisabled(probe.out[1].actions[k])
  /\ Ran("sanitizeAction") => ReasonIffDisabled(probe.out[1])

\* an enabled action whose payload carried a disabled_reason all the same
DisabledReasonWitness ==
  /\ Ran("sanitizeAction")
  /\ Get(probe.input, "disabled_reason") = JStr("paused")
  /\ Get(probe.input, "enabled") = JBool(TRUE)
  /\ probe.out[1].enabled
  /\ probe.out[1].disabled_reason = <<>>

(***************************************************************************)
(* Properties of the seed                                                  *)
(***************************************************************************)
\* C27: for every seed the initial mock state has status 'active', turn in
\* {1,2,3}, exactly the 4 evidence items e1..e4 with e1 'surfaced', e3
\* 'review', e2 in {surfaced, logged} and e4 in {logged, review}, exactly 3
\* timeline entries, crime_type in {murder, fraud, arson, kidnapping}, public
\* pressure in {low, moderate, elevated}, institutional in {low, moderate}
\* and personal in {moderate, elevated}
InitialStateShape ==
  Ran("createInitialMockState")
    => LET s == probe.out[1]
       IN  /\ s.status = "active"
           /\ s.turn \in {1, 2, 3}
           /\ Len(s.evidence) = 4
           /\ <<s.evidence[1].id, s.evidence[2].id, s.evidence[3].id, s.evidence[4].id>>
                = <<"e1", "e2", "e3", "e4">>
           /\ s.evidence[1].state = "surfaced"
           /\ s.evidence[2].state \in {"surfaced", "logged"}
           /\ s.evidence[3].state = "review"
           /\ s.evidence[4].state \in {"logged", "review"}
           /\ Len(s.timeline) = 3
           /\ s.crime_type \in {"murder", "fraud", "arson", "kidnapping"}
           /\ s.pressure.public \in {"low", "moderate", "elevated"}
           /\ s.pressure.institutional \in {"low", "moderate"}
           /\ s.pressure.personal \in {"moderate", "elevated"}

\* the state of the largest seed
InitialStateWitness ==
  /\ Ran("createInitialMockState")
  /\ probe.input = 2147483647
  /\ probe.out[1].case_id = "case_947"
  /\ probe.out[1].turn \in {1, 2, 3}

\* C28: getSeedFromUrl returns an integer >= 1 for every query string: 1
\* when the seed parameter is absent, is not numeric or parses to 0, and
\* the absolute value when it parses to a negative integer
SeedAtLeastOne ==
  Ran("getSeedFromUrl")
    => LET param == probe.input.param
           text == param[1]
           neg == text # "" /\ charAt(text, 1) = "-"
           mag == IF neg THEN Tail(text) ELSE text
       IN  /\ probe.out[1] \in Nat
           /\ probe.out[1] >= 1
           /\ param = <<>> => probe.out[1] = 1
           /\ (param # <<>> /\ ~\E k \in 1..Len(text) : isDigit(charAt(text, k)))
                => probe.out[1] = 1
           /\ (param # <<>> /\ mag # "" /\ allDigits(mag))
                => probe.out[1] = (IF toNat(mag) = 0 THEN 1 ELSE toNat(mag))

\* a negative seed that is not the first parameter of the query
SeedWitness ==
  /\ Ran("getSeedFromUrl")
  /\ probe.input.search = "?a=1&seed=-12&seed=8"
  /\ probe.out[1] = 12

(***************************************************************************)
(* Properties of overlapping calls                                         *)
(***************************************************************************)
\* entry m of the record is a getVisibleState or applyAction that resolved
Wrote(m) ==
  /\ probe[m].ev = "settle"
  /\ probe[m].call.ok
  /\ probe[m].call.op \in {"getVisibleState", "applyAction"}

\* the state of the response that resolved last among the first n entries
LastResolved(n) ==
  IF \E m \in 1..n : Wrote(m)
  THEN probe[CHOOSE m \in 1..n : Wrote(m) /\ \A j \in (m + 1)..n : ~Wrote(j)].call.visible_state
  ELSE <<>>

\* entry m is a saveSlot(slotId) that found a retained state
Saved(m, slotId) ==
  /\ probe[m].ev = "settle"
  /\ probe[m].call.op = "saveSlot"
  /\ probe[m].call.arg = slotId
  /\ LastResolved(m) # <<>>

\* C29: with calls overlapping, every live getVisibleState or applyAction
\* writes the retained state when its own response resolves, so the
\* retained state is that of the response that resolved last, whatever the
\* order of issue, and a saveSlot captures the state of the response that
\* resolved last before it
LastResolvedWins ==
  /\ cur[1] = LastResolved(Len(probe))
  /\ slots[1]["page-a"] =
       (IF \E m \in 1..Len(probe) : Saved(m, "page-a")
        THEN LastResolved(CHOOSE m \in 1..Len(probe) :
                            Saved(m, "page-a") /\ \A j \in (m + 1)..Len(probe) : ~Saved(j, "page-a"))
        ELSE <<>>)

\* getVisibleState was issued before applyAction and resolved after it, with
\* a saveSlot between the two resolutions: the snapshot is the applyAction's
\* state and the retained state the getVisibleState's
LastResolvedWitness ==
  /\ Len(probe) = 6
  /\ probe[2] = Issued("getVisibleState", "")
  /\ probe[3].ev = "issue" /\ probe[3].call.op = "applyAction"
  /\ probe[4].ev = "settle" /\ probe[4].call.op = "applyAction" /\ probe[4].call.ok
  /\ probe[5].ev = "settle" /\ probe[5].call.op = "saveSlot"
  /\ probe[6].ev = "settle" /\ probe[6].call.op = "getVisibleState" /\ probe[6].call.ok
  /\ slots[1]["page-a"] = probe[4].call.visible_state
  /\ cur[1] = probe[6].call.visible_state
  /\ cur[1] # slots[1]["page-a"]

\* the recorded calls, without the opening entry
Calls == SubSeq(probe, 2, Len(probe))

Listed(response, id) ==
  LET acts == response.actions[1].actions
  IN  acts[CHOOSE n \in 1..Len(acts) : acts[n].id = id]

\* C31: in the mock adapter, when applyAction with a catalogue id is the
\* call right after a getActions, it succeeds if and only if that getActions
\* listed the id as enabled
EnabledIffSucceeds ==
  [][(resp[1].op = "getActions" /\ resp'[1].op = "applyAction" /\ resp'[1].arg \in CATALOGUE)
       => /\ Listed(resp[1], resp'[1].arg).enabled = resp'[1].action_result[1].success
          /\ \A a \in CATALOGUE :
               Listed(resp[1], a).enabled = applyMockAction(cur[1][1], a).action_result.success]_vars

\* delay_briefing was refused under critical public pressure after an
\* earlier action had succeeded, in a state where it is listed as disabled
\* and seal_archive as enabled
EnabledIffSucceedsWitness ==
  /\ resp[1].op = "applyAction"
  /\ resp[1].arg = "delay_briefing"
  /\ ~resp[1].action_result[1].success
  /\ wins[1] > 0
  /\ cur[1][1].pressure.public = "critical"
  /\ ~Listed([actions |-> <<buildMockActions(cur[1][1])>>], "delay_briefing").enabled
  /\ Listed([actions |-> <<buildMockActions(cur[1][1])>>], "seal_archive").enabled

\* what an evidence item is, apart from its state and summary
Identity(item) == [id |-> item.id, label |-> item.label, category |-> item.category]

\* the fields of old that the action with the given id may not touch are
\* the same in new
Frame(id, old, new) ==
  /\ DOMAIN new = DOMAIN old
  /\ new.case_id = old.case_id
  /\ new.crime_type = old.crime_type
  /\ new.status = old.status
  /\ new.investigator_signals.demeanour = old.investigator_signals.demeanour
  /\ new.pressure.personal = old.pressure.personal
  /\ id \in {"remove_evidence", "seal_archive"}
       => new.investigator_signals = old.investigator_signals
  /\ id \in {"delay_briefing", "reframe_priority"} => new.evidence = old.evidence
  /\ id = "remove_evidence" => new.pressure.institutional = old.pressure.institutional
  /\ id = "seal_archive" => new.pressure.public = old.pressure.public
  /\ id = "reframe_priority" => new.pressure = old.pressure
  /\ id = "delay_briefing" => new.investigator_signals = old.investigator_signals

\* C32: a successful mock action leaves case_id, crime_type, status,
\* demeanour and personal pressure as they were, and with them every field
\* its catalogue row does not name (investigator signals for remove_evidence
\* and seal_archive, evidence for delay_briefing and reframe_priority); and
\* the mock state always holds four evidence items with the ids, labels and
\* categories of the created state
ActionFrame ==
  /\ [](LET now == cur[1][1].evidence
            first == createInitialMockState(seed[1]).evidence
        IN  /\ Len(now) = 4
            /\ \A n \in 1..4 : Identity(now[n]) = Identity(first[n]))
  /\ [][\A a \in CATALOGUE :
          (MockApplyAction(1, a) /\ resp'[1].action_result[1].success)
            => Frame(a, cur[1][1], cur'[1][1])]_vars

\* seal_archive succeeded on a state reached through remove_evidence, and
\* the evidence now differs from the created one in state and summary only
ActionFrameWitness ==
  /\ Succeeded("seal_archive")
  /\ cur[1][1].evidence # createInitialMockState(seed[1]).evidence
  /\ HasEvidence(cur[1][1], "archived")
  /\ cur[1][1].investigator_signals = createInitialMockState(seed[1]).investigator_signals

\* the labels of the ordered pressure scale
OnScale(label) == \E n \in 1..Len(PRESSURE_SCALE) : PRESSURE_SCALE[n] = label

\* C33: in every state the mock adapter reaches through applyAction,
\* saveSlot and loadSlot, public, institutional and personal pressure are
\* each one of low, moderate, elevated, high, critical, in the working state
\* and in every stored snapshot
PressureOnScale ==
  \A state \in {cur[1][1]} \cup {slots[1][s][1] : s \in {n \in SlotNames : slots[1][n] # <<>>}} :
    /\ OnScale(state.pressure.public)
    /\ OnScale(state.pressure.institutional)
    /\ OnScale(state.pressure.personal)

\* seal_archive succeeded as the second action on a state created with low
\* institutional pressure: the shift down stayed at the low end of the scale
PressureOnScaleWitness ==
  /\ Succeeded("seal_archive")
  /\ createInitialMockState(seed[1]).pressure.institutional = "low"
  /\ cur[1][1].turn = createInitialMockState(seed[1]).turn + 2
  /\ cur[1][1].pressure.institutional = "low"

\* C34: once public pressure is 'critical' in the mock adapter, every
\* applyAction leaves it 'critical', delay_briefing fails and is listed as
\* disabled, and a step that ends the condition is a loadSlot
CriticalIsAbsorbing ==
  [][cur[1][1].pressure.public = "critical"
       => /\ \A a \in CATALOGUE :
               MockApplyAction(1, a)
                 => /\ cur'[1][1].pressure.public = "critical"
                    /\ ~Listed([actions |-> <<buildMockActions(cur'[1][1])>>],
                               "delay_briefing").enabled
                    /\ a = "delay_briefing"
                         => ~resp'[1].action_result[1].success /\ cur' = cur
          /\ cur'[1][1].pressure.public # "critical"
               => resp'[1].op = "loadSlot" /\ resp'[1].ok /\ cur'[1] = slots[1][resp'[1].arg]]_vars

\* seal_archive succeeded under critical public pressure, which two
\* remove_evidence actions had brought about, while the slot holds a
\* snapshot taken before the pressure was critical
CriticalIsAbsorbingWitness ==
  /\ Succeeded("seal_archive")
  /\ cur[1][1].pressure.public = "critical"
  /\ createInitialMockState(seed[1]).pressure.public = "elevated"
  /\ slots[1]["page-a"] # <<>>
  /\ slots[1]["page-a"][1].pressure.public # "critical"

\* entry m of the record is a successful applyAction with the given id
Won(m, id) ==
  /\ probe[m].ev = "settle"
  /\ probe[m].call.op = "applyAction"
  /\ probe[m].call.arg = id
  /\ probe[m].call.action_result[1].success

\* the successful applyAction calls with the given id among the first n entries
Wins(n, id) == Cardinality({m \in 1..n : Won(m, id)})

\* no loadSlot is recorded
NoLoad == \A m \in 1..Len(probe) : probe[m].call.op # "loadSlot"

\* from old to new, every evidence item keeps its state or goes from
\* surfaced to suppressed under remove_evidence or from suppressed to
\* archived under seal_archive
LifecycleStep(id, old, new) ==
  \A n \in 1..Len(old.evidence) :
    \/ new.evidence[n].state = old.evidence[n].state
    \/ /\ id = "remove_evidence"
       /\ old.evidence[n].state = "surfaced"
       /\ new.evidence[n].state = "suppressed"
    \/ /\ id = "seal_archive"
       /\ old.evidence[n].state = "suppressed"
       /\ new.evidence[n].state = "archived"

\* what the record shows: a successful seal_archive comes after a successful
\* remove_evidence, and without loadSlot remove_evidence has succeeded at
\* most twice and seal_archive, at every point, no more often than it
LifecycleCounts ==
  /\ \A m \in 1..Len(probe) : Won(m, "seal_archive") => Wins(m, "remove_evidence") > 0
  /\ NoLoad => /\ Wins(Len(probe), "remove_evidence") <= 2
               /\ \A m \in 1..Len(probe) : Wins(m, "seal_archive") <= Wins(m, "remove_evidence")

\* C35 as stated: in every step of the mock adapter the evidence states
\* change only surfaced -> suppressed and suppressed -> archived, so that a
\* logged, review or archived item never changes
EvidenceLifecycle ==
  /\ [][LifecycleStep(resp'[1].arg, cur[1][1], cur'[1][1])]_vars
  /\ []LifecycleCounts

\* C35: in every applyAction step of the mock adapter the evidence states
\* change only surfaced -> suppressed (remove_evidence) and suppressed ->
\* archived (seal_archive), logged, review and archived items staying as
\* they are; seal_archive succeeds only after remove_evidence has; without
\* loadSlot remove_evidence succeeds at most twice and seal_archive no more
\* often than remove_evidence
EvidenceLifecycleOfActions ==
  /\ [][\A a \in CATALOGUE : MockApplyAction(1, a) => LifecycleStep(a, cur[1][1], cur'[1][1])]_vars
  /\ []LifecycleCounts

\* without loadSlot: both surfaced items removed, both sealed, and a third
\* remove_evidence refused
EvidenceLifecycleWitness ==
  /\ Len(probe) = 6
  /\ NoLoad
  /\ Wins(6, "remove_evidence") = 2
  /\ Wins(6, "seal_archive") = 2
  /\ probe[6].call.arg = "remove_evidence"
  /\ ~probe[6].call.action_result[1].success
  /\ \A n \in 1..4 : cur[1][1].evidence[n].state \in {"archived", "logged", "review"}

\* the minutes of a YYYY-MM-DDTHH:MM:SS.mmmZ instant, counted so that a
\* later instant has the greater count
Minutes(time) ==
  (((toNat(SubSeq(time, 1, 4)) * 12 + toNat(SubSeq(time, 6, 7))) * 31
      + toNat(SubSeq(time, 9, 10))) * 24 + toNat(SubSeq(time, 12, 13))) * 60
    + toNat(SubSeq(time, 15, 16))

\* every entry of the timeline is later than the entry before it
Chronological(timeline) ==
  \A n \in 1..(Len(timeline) - 1) :
    /\ Len(timeline[n].time) = 24 /\ Len(timeline[n + 1].time) = 24
    /\ SubSeq(timeline[n].time, 17, 24) = SubSeq(timeline[n + 1].time, 17, 24)
    /\ Minutes(timeline[n].time) < Minutes(timeline[n + 1].time)

\* C36: in every state the mock adapter reaches through applyAction,
\* saveSlot and loadSlot, the timestamps of the timeline are strictly
\* increasing from the first entry to the last, in the working state and in
\* every stored snapshot
TimelineChronological ==
  \A state \in {cur[1][1]} \cup {slots[1][s][1] : s \in {n \in SlotNames : slots[1][n] # <<>>}} :
    Chronological(state.timeline)

\* the first action on a state created at turn 1: its entry is stamped
\* 22:10, ten minutes after the last created entry
TimelineChronologicalWitness ==
  /\ Applied(1) /\ resp[1].action_result[1].success
  /\ createInitialMockState(seed[1]).turn = 1
  /\ Len(cur[1][1].timeline) = 4
  /\ cur[1][1].timeline[3].time = "2026-02-01T22:00:00.000Z"
  /\ cur[1][1].timeline[4].time = "2026-02-01T22:10:00.000Z"

(***************************************************************************)
(* Properties of the operations that only read                             *)
(***************************************************************************)
\* a live getActions call settles, with a response or with a failure
LiveGetActionsSettles ==
  \/ \E k \in 1..MaxInflight, p \in 1..Len(Payloads) : LiveGetActions(1, k, p)
  \/ \E k \in 1..MaxInflight, f \in 1..Len(Failures) :
       /\ k <= Len(pending[1])
       /\ pending[1][k].op = "getActions"
       /\ LiveFail(1, k, Failures[f])

\* C37: the mock adapter's getVisibleState, getActions and listSlots change
\* neither its state nor its slots; its saveSlot changes no slot but the
\* one named and not the state; the live adapter's getActions (issued,
\* answered or failed), listSlots and saveSlot leave the retained state as
\* it is
ReadOnlyOperations ==
  [][/\ (MockGetVisibleState(1) \/ MockGetActions(1) \/ MockListSlots(1))
          => UNCHANGED <<cur, slots, slotKeys>>
     /\ \A s \in SlotNames :
          MockSaveSlot(1, s)
            => /\ UNCHANGED cur
               /\ slots'[1][s] = cur[1]
               /\ \A t \in SlotNames \ {s} : slots'[1][t] = slots[1][t]
     /\ (\/ LiveRequest(1, "getActions", "")
         \/ LiveGetActionsSettles
         \/ LiveListSlots(1)
         \/ \E s \in SlotNames : LiveSaveSlot(1, s))
          => UNCHANGED cur]_vars

\* the live adapter answered getActions while it retained a state
ReadOnlyWitness ==
  /\ kind[1] = "live"
  /\ resp[1].op = "getActions"
  /\ resp[1].ok
  /\ resp[1].actions # <<>>
  /\ cur[1] # <<>>
  /\ slots[1]["page-a"] = cur[1]

(***************************************************************************)
(* Properties of App                                                       *)
(***************************************************************************)
\* the handlers whose first call changes the adapter's state
StateChanging == {"handleApplyAction", "handleSavePage", "handleLoadPage"}

\* the handlers in flight that are among names
InFlight(names) == {n \in 1..Len(ui.handlers) : ui.handlers[n].name \in names}

\* the applyAction requests that have not settled
ApplyPending == {k \in 1..Len(pending[1]) : pending[1][k].op = "applyAction"}

\* C38: the presentation layer serializes state-changing calls.  While one
\* of handleApplyAction, handleSavePage and handleLoadPage is in flight busy
\* is true and the Apply Action, Save and Load controls are disabled, so at
\* most one of these handlers is in flight and at most one applyAction is
\* unsettled (saveSlot and loadSlot settle within the call); and busy is
\* false again once the handler is over, however its calls ended.
Serialized ==
  /\ Cardinality(InFlight(StateChanging)) <= 1
  /\ Cardinality(ApplyPending) <= 1
  /\ InFlight(StateChanging) # {} =>
       /\ ui.busy
       /\ ~PageControlsEnabled(ui)
       /\ \A a \in ActionIds : ~ApplyEnabled(ui, a)
  /\ InFlight(StateChanging) = {} => ~ui.busy

\* the second handler of the user's is in flight, its applyAction unsettled
SerializedWitness ==
  /\ ui.started = MaxHandlers
  /\ \E n \in InFlight({"handleApplyAction"}) : ui.handlers[n].waiting # <<>>
  /\ ApplyPending # {}

\* a handler among names is over in this step
Settles(names) == \E n \in InFlight(names) : ui'.handlers = settle(ui.handlers, n)

\* C39: the displayed state follows the adapter state.  Whenever
\* handleApplyAction or handleLoadPage is over, with or without an error, on
\* the mock or the live adapter, the VisibleState App shows is the state the
\* adapter holds then; a getActions that fails after the action was applied
\* included.
DisplayedFollows ==
  [][Settles({"handleApplyAction", "handleLoadPage"}) => ui'.visibleState = cur'[1]]_vars

(***************************************************************************)
(* Properties of ScenarioEditor                                            *)
(***************************************************************************)
\* C40: ScenarioEditor keeps selection and loaded config consistent.  Once
\* no getScenario is outstanding the config the editor holds is the one of
\* the selected scenario, in whatever order the requests of overlapping
\* selection changes settled; and so handleSave never sends the config of
\* one scenario under the id of another.
SelectionConsistent ==
  /\ Outstanding("getScenario") = {} /\ ui.config # <<>> =>
       ui.config[1] = ui.served[ui.selectedScenario]
  /\ \A k \in Outstanding("saveScenario") :
       ui.requests[k].config[1] = ui.served[ui.requests[k].scenarioId]
====
